---- MODULE Spec2Model ----
(***************************************************************************)
(* A state-machine model of the PrediFi prediction-market contract         *)
(* (contract/contracts/predifi-contract/src/lib.rs).                       *)
(*                                                                         *)
(* Storage is modelled key by key after the DataKey enum: one variable per *)
(* persistent key family, each a function whose DOMAIN is the set of keys  *)
(* present in storage, and one function `instance` for the instance keys   *)
(* Config, PoolIdCounter and Paused.  Every public entry point is one      *)
(* action.  A call that returns Err or panics leaves storage and balances  *)
(* untouched (the host rolls the invocation back) and only records its     *)
(* result in `last`.                                                       *)
(*                                                                         *)
(* Collaborators: the token contract is the variable `balance` (a transfer *)
(* aborts the caller when the sender's balance is too small); the          *)
(* access-control contract is the fixed table RoleTable; storage lifetimes *)
(* (extend_ttl) are assumed never to lapse.                                *)
(***************************************************************************)
EXTENDS Integers, Sequences, FiniteSets, TLC

\* ------------------------------------------------------------ constants
\* Program constants.
MIN_POOL_DURATION == 3600
MAX_OPTIONS_COUNT == 100
MAX_FEE_BPS == 10000

\* Program constants beyond the 32-bit integers of the model, scaled down.
\* MAX_INITIAL_LIQUIDITY is 100_000_000_000_000 in the source; I128_MAX and
\* U64_MAX stand for i128::MAX and u64::MAX.
MAX_INITIAL_LIQUIDITY == 2
I128_MAX == 9
U64_MAX == 9000
\* U32_MAX stands for u32::MAX, scaled down likewise.
U32_MAX == 5

\* Model bounds: what each staker and the donor hold at the start.
InitBalance == 3
DonorBalance == 1

\* ------------------------------------------------------------ domains
Stakers == {"alice", "bob"}
Donor == "carol"
Address == Stakers \cup {Donor, "admin", "operator", "oracle"}
Contract == "contract"
Tokens == {"USDC"}
Categories == {"sports"}

\* The access-control collaborator's answer to has_role(user, role):
\* administrator 0, operator 1, oracle 3.
RoleTable == {<<"admin", 0>>, <<"operator", 1>>, <<"oracle", 3>>}

VARIABLES
    instance,             \* instance storage: Config, PoolIdCounter, Paused
    Pool,                 \* DataKey::Pool(id)
    Prediction,           \* DataKey::Prediction(user, id)
    HasClaimed,           \* DataKey::HasClaimed(user, id)
    OutcomeStake,         \* DataKey::OutcomeStake(id, outcome)
    OutcomeStakes,        \* DataKey::OutcomeStakes(id)
    UserPredictionCount,  \* DataKey::UserPredictionCount(user)
    UserPredictionIndex,  \* DataKey::UserPredictionIndex(user, n)
    CategoryPoolCount,    \* DataKey::CategoryPoolCount(category)
    CategoryPoolIndex,    \* DataKey::CategoryPoolIndex(category, n)
    TokenWhitelist,       \* DataKey::TokenWhitelist(token)
    balance,              \* the token collaborator: balance[token][holder]
    now,                  \* env.ledger().timestamp()
    last,                 \* the last call: entry point, arguments, result
    payouts,              \* history: per (user, pool), the amounts claim_winnings paid
    deposited             \* history: per (user, pool), the total the user transferred in

storage == <<instance, Pool, Prediction, HasClaimed, OutcomeStake, OutcomeStakes,
             UserPredictionCount, UserPredictionIndex, CategoryPoolCount,
             CategoryPoolIndex, TokenWhitelist>>

vars == <<instance, Pool, Prediction, HasClaimed, OutcomeStake, OutcomeStakes,
          UserPredictionCount, UserPredictionIndex, CategoryPoolCount,
          CategoryPoolIndex, TokenWhitelist, balance, now, last, payouts, deposited>>

\* ------------------------------------------------------------ helpers
Min(a, b) == IF a <= b THEN a ELSE b

\* storage.get(key).unwrap_or(dflt)
GetOr(f, k, dflt) == IF k \in DOMAIN f THEN f[k] ELSE dflt

\* storage.set(key, value)
Put(f, k, v) == [x \in DOMAIN f \cup {k} |-> IF x = k THEN v ELSE f[x]]

\* storage.remove(key)
Remove(f, k) == [x \in DOMAIN f \ {k} |-> f[x]]

\* The sum of f over the finite set S.
RECURSIVE SumOver(_, _)
SumOver(S, f) ==
    IF S = {} THEN 0
    ELSE LET x == CHOOSE y \in S : TRUE IN f[x] + SumOver(S \ {x}, f)

\* The sum of the elements of a sequence.
RECURSIVE SeqSum(_)
SeqSum(s) == IF s = <<>> THEN 0 ELSE Head(s) + SeqSum(Tail(s))

\* A faulty variant of saturating_add: the sum wraps around.
SaturatingAdd_wrapping(a, b) == (a + b) % (U64_MAX + 1)

\* u64::saturating_add
SaturatingAdd(a, b) == Min(a + b, U64_MAX)

\* A faulty variant of i128 addition: the sum wraps around.
CheckedAdd_wrapping(a, b) == (a + b) % (I128_MAX + 1)

\* i128::checked_add / checked_mul: the value, or -1 for None (operands are >= 0).
CheckedAdd(a, b) == IF a + b > I128_MAX THEN -1 ELSE a + b
CheckedMul(a, b) == IF a * b > I128_MAX THEN -1 ELSE a * b

\* Vec<i128>::get(i).unwrap_or(0) on a vector indexed from 0.
VecGetOr0(v, i) == IF i + 1 \in DOMAIN v THEN v[i + 1] ELSE 0

\* ------------------------------------------------------------ pure helpers
\* Faulty variants of calculate_winnings: rounding the share up, dividing
\* before multiplying, and returning the bare stake.
calculate_winnings_ceil(user_stake, winning_stake, total_stake) ==
    IF winning_stake = 0 THEN 0
    ELSE IF CheckedMul(user_stake, total_stake) = -1 THEN -1
    ELSE (CheckedMul(user_stake, total_stake) + winning_stake - 1) \div winning_stake

calculate_winnings_div_first(user_stake, winning_stake, total_stake) ==
    IF winning_stake = 0 THEN 0
    ELSE CheckedMul(user_stake \div winning_stake, total_stake)

calculate_winnings_no_share(user_stake, winning_stake, total_stake) ==
    IF winning_stake = 0 THEN 0 ELSE user_stake

\* calculate_winnings (lib.rs 398-408): -1 stands for the panic "overflow in
\* winnings calculation".
calculate_winnings(user_stake, winning_stake, total_stake) ==
    IF winning_stake = 0 THEN 0
    ELSE IF CheckedMul(user_stake, total_stake) = -1 THEN -1
    ELSE CheckedMul(user_stake, total_stake) \div winning_stake

is_valid_state_transition(current, next) ==
    \/ current = "Active" /\ next = "Resolved"
    \/ current = "Active" /\ next = "Canceled"

is_valid_fee_bps(fee_bps) == fee_bps <= MAX_FEE_BPS

\* get_outcome_stakes: the batched vector, or its reconstruction from the
\* per-outcome keys when the batched key is absent.
get_outcome_stakes(pool_id, options_count) ==
    IF pool_id \in DOMAIN OutcomeStakes THEN OutcomeStakes[pool_id]
    ELSE [i \in 1..options_count |-> GetOr(OutcomeStake, <<pool_id, i - 1>>, 0)]

\* A faulty variant of the role check: holding any role is enough.
has_role_any(user, role) == \E r \in {0, 1, 3} : <<user, r>> \in RoleTable

has_role(user, role) == <<user, role>> \in RoleTable

\* require_role(...).is_ok(); reading the config panics when it is not set.
require_role(user, role) == has_role(user, role)

\* A faulty variant of the pause check: the flag is never seen.
is_paused_never == FALSE

is_paused == GetOr(instance, "Paused", FALSE)

\* A faulty variant of the allow-list lookup: every token is allowed.
is_token_whitelisted_any(token) == TRUE

is_token_whitelisted(token) == GetOr(TokenWhitelist, token, FALSE)

HasConfig == "Config" \in DOMAIN instance

\* ------------------------------------------------------------ call records
Call(op, caller, pool, res, ret) ==
    [op |-> op, caller |-> caller, pool |-> pool, res |-> res, ret |-> ret]

\* A call that fails: nothing but the record of the call changes.
Fail(op, caller, pool, res) ==
    /\ last' = Call(op, caller, pool, res, 0)
    /\ UNCHANGED <<storage, balance, now, payouts, deposited>>

\* token.transfer(from, to, amount) on the balances b.
Transfer(b, token, from, to, amount) ==
    [b EXCEPT ![token] = [@ EXCEPT ![from] = @ - amount, ![to] = @ + amount]]

CanTransfer(token, from, amount) ==
    token \in DOMAIN balance /\ balance[token][from] >= amount

\* ------------------------------------------------------------ initial state
Init ==
    /\ instance = <<>>
    /\ Pool = <<>>
    /\ Prediction = <<>>
    /\ HasClaimed = <<>>
    /\ OutcomeStake = <<>>
    /\ OutcomeStakes = <<>>
    /\ UserPredictionCount = <<>>
    /\ UserPredictionIndex = <<>>
    /\ CategoryPoolCount = <<>>
    /\ CategoryPoolIndex = <<>>
    /\ TokenWhitelist = <<>>
    /\ balance = [t \in Tokens |->
                    [a \in Address \cup {Contract} |->
                        IF a \in Stakers THEN InitBalance
                        ELSE IF a = Donor THEN DonorBalance ELSE 0]]
    /\ now = 0
    /\ last = Call("deploy", "none", -1, "ok", 0)
    /\ payouts = <<>>
    /\ deposited = <<>>

\* ------------------------------------------------------------ administration
\* A faulty variant of init: it writes Config and PoolIdCounter every time.
init_overwriting(access_control, treasury, fee_bps, resolution_delay) ==
    /\ instance' =
            Put(Put(instance, "Config",
                    [fee_bps |-> fee_bps, treasury |-> treasury,
                     access_control |-> access_control,
                     resolution_delay |-> resolution_delay]),
                "PoolIdCounter", 0)
    /\ last' = Call("init", "none", -1, "ok", 0)
    /\ UNCHANGED <<Pool, Prediction, HasClaimed, OutcomeStake, OutcomeStakes,
                   UserPredictionCount, UserPredictionIndex, CategoryPoolCount,
                   CategoryPoolIndex, TokenWhitelist, balance, now, payouts, deposited>>

\* init (lib.rs 554-580): writes Config and PoolIdCounter only when Config is absent.
init(access_control, treasury, fee_bps, resolution_delay) ==
    /\ IF ~HasConfig
       THEN instance' =
                Put(Put(instance, "Config",
                        [fee_bps |-> fee_bps, treasury |-> treasury,
                         access_control |-> access_control,
                         resolution_delay |-> resolution_delay]),
                    "PoolIdCounter", 0)
       ELSE instance' = instance
    /\ last' = Call("init", "none", -1, "ok", 0)
    /\ UNCHANGED <<Pool, Prediction, HasClaimed, OutcomeStake, OutcomeStakes,
                   UserPredictionCount, UserPredictionIndex, CategoryPoolCount,
                   CategoryPoolIndex, TokenWhitelist, balance, now, payouts, deposited>>

\* The part every successful administrative call shares: a new instance
\* storage, everything else unchanged.
AdminOk(op, admin, newInstance) ==
    /\ instance' = newInstance
    /\ last' = Call(op, admin, -1, "ok", 0)
    /\ UNCHANGED <<Pool, Prediction, HasClaimed, OutcomeStake, OutcomeStakes,
                   UserPredictionCount, UserPredictionIndex, CategoryPoolCount,
                   CategoryPoolIndex, TokenWhitelist, balance, now, payouts, deposited>>

\* pause (lib.rs 583-605): not gated by the pause flag.
pause(admin) ==
    IF ~HasConfig THEN Fail("pause", admin, -1, "panic: Config not set")
    ELSE IF ~require_role(admin, 0)
    THEN Fail("pause", admin, -1, "panic: Unauthorized: missing required role")
    ELSE AdminOk("pause", admin, Put(instance, "Paused", TRUE))

\* A faulty variant of unpause: it is gated by the pause flag like the other
\* entry points.
unpause_gated(admin) ==
    IF is_paused THEN Fail("unpause", admin, -1, "panic: Contract is paused")
    ELSE IF ~HasConfig THEN Fail("unpause", admin, -1, "panic: Config not set")
    ELSE IF ~require_role(admin, 0)
    THEN Fail("unpause", admin, -1, "panic: Unauthorized: missing required role")
    ELSE AdminOk("unpause", admin, Put(instance, "Paused", FALSE))

\* unpause (lib.rs 608-623): not gated by the pause flag.
unpause(admin) ==
    IF ~HasConfig THEN Fail("unpause", admin, -1, "panic: Config not set")
    ELSE IF ~require_role(admin, 0)
    THEN Fail("unpause", admin, -1, "panic: Unauthorized: missing required role")
    ELSE AdminOk("unpause", admin, Put(instance, "Paused", FALSE))

\* set_fee_bps (lib.rs 628-648)
set_fee_bps(admin, fee_bps) ==
    IF is_paused THEN Fail("set_fee_bps", admin, -1, "panic: Contract is paused")
    ELSE IF ~HasConfig THEN Fail("set_fee_bps", admin, -1, "panic: Config not set")
    ELSE IF ~require_role(admin, 0) THEN Fail("set_fee_bps", admin, -1, "Unauthorized")
    ELSE IF ~is_valid_fee_bps(fee_bps)
    THEN Fail("set_fee_bps", admin, -1, "panic: fee_bps exceeds 10000")
    ELSE AdminOk("set_fee_bps", admin,
                 [instance EXCEPT !["Config"].fee_bps = fee_bps])

\* set_treasury (lib.rs 651-670)
set_treasury(admin, treasury) ==
    IF is_paused THEN Fail("set_treasury", admin, -1, "panic: Contract is paused")
    ELSE IF ~HasConfig THEN Fail("set_treasury", admin, -1, "panic: Config not set")
    ELSE IF ~require_role(admin, 0) THEN Fail("set_treasury", admin, -1, "Unauthorized")
    ELSE AdminOk("set_treasury", admin,
                 [instance EXCEPT !["Config"].treasury = treasury])

\* set_resolution_delay (lib.rs 673-692)
set_resolution_delay(admin, delay) ==
    IF is_paused
    THEN Fail("set_resolution_delay", admin, -1, "panic: Contract is paused")
    ELSE IF ~HasConfig
    THEN Fail("set_resolution_delay", admin, -1, "panic: Config not set")
    ELSE IF ~require_role(admin, 0)
    THEN Fail("set_resolution_delay", admin, -1, "Unauthorized")
    ELSE AdminOk("set_resolution_delay", admin,
                 [instance EXCEPT !["Config"].resolution_delay = delay])

\* The part the two allow-list calls share on success.
WhitelistOk(op, admin, newWhitelist) ==
    /\ TokenWhitelist' = newWhitelist
    /\ last' = Call(op, admin, -1, "ok", 0)
    /\ UNCHANGED <<instance, Pool, Prediction, HasClaimed, OutcomeStake,
                   OutcomeStakes, UserPredictionCount, UserPredictionIndex,
                   CategoryPoolCount, CategoryPoolIndex, balance, now, payouts, deposited>>

\* add_token_to_whitelist (lib.rs 695-721)
add_token_to_whitelist(admin, token) ==
    IF is_paused
    THEN Fail("add_token_to_whitelist", admin, -1, "panic: Contract is paused")
    ELSE IF ~HasConfig
    THEN Fail("add_token_to_whitelist", admin, -1, "panic: Config not set")
    ELSE IF ~require_role(admin, 0)
    THEN Fail("add_token_to_whitelist", admin, -1, "Unauthorized")
    ELSE WhitelistOk("add_token_to_whitelist", admin, Put(TokenWhitelist, token, TRUE))

\* remove_token_from_whitelist (lib.rs 724-749)
remove_token_from_whitelist(admin, token) ==
    IF is_paused
    THEN Fail("remove_token_from_whitelist", admin, -1, "panic: Contract is paused")
    ELSE IF ~HasConfig
    THEN Fail("remove_token_from_whitelist", admin, -1, "panic: Config not set")
    ELSE IF ~require_role(admin, 0)
    THEN Fail("remove_token_from_whitelist", admin, -1, "Unauthorized")
    ELSE WhitelistOk("remove_token_from_whitelist", admin, Remove(TokenWhitelist, token))

\* ------------------------------------------------------------ pool lifecycle
\* create_pool (lib.rs 769-906).  The description and the metadata URL enter
\* only through their lengths; the pool record keeps the fields the contract
\* reads back.
\* A faulty variant of the id allocation: the id handed out last is reused.
next_pool_id_stale ==
    IF GetOr(instance, "PoolIdCounter", 0) > 0
    THEN GetOr(instance, "PoolIdCounter", 0) - 1
    ELSE 0

\* The id create_pool hands out (lib.rs 826-831): PoolIdCounter, or 0.
next_pool_id == GetOr(instance, "PoolIdCounter", 0)

create_pool(creator, end_time, token, options_count, description_len, metadata_url_len, initial_liquidity, category) ==
    LET pool_id == next_pool_id
        pool == [end_time |-> end_time, resolved |-> FALSE, canceled |-> FALSE,
                 state |-> "Active", outcome |-> 0, token |-> token,
                 total_stake |-> initial_liquidity,
                 options_count |-> options_count,
                 initial_liquidity |-> initial_liquidity,
                 creator |-> creator, category |-> category]
        category_count == GetOr(CategoryPoolCount, category, 0)
        fail(res) == Fail("create_pool", creator, -1, res)
    IN
    IF is_paused THEN fail("panic: Contract is paused")
    ELSE IF ~is_token_whitelisted(token) THEN fail("TokenNotWhitelisted")
    ELSE IF ~(end_time > now) THEN fail("panic: end_time must be in the future")
    ELSE IF ~(end_time >= now + MIN_POOL_DURATION)
    THEN fail("panic: end_time must be at least 1 hour in the future")
    ELSE IF ~(options_count >= 2) THEN fail("panic: options_count must be at least 2")
    ELSE IF ~(options_count <= MAX_OPTIONS_COUNT)
    THEN fail("panic: options_count exceeds maximum allowed value")
    ELSE IF ~(initial_liquidity >= 0)
    THEN fail("panic: initial_liquidity must be non-negative")
    ELSE IF ~(initial_liquidity <= MAX_INITIAL_LIQUIDITY)
    THEN fail("panic: initial_liquidity exceeds maximum allowed value")
    ELSE IF ~(description_len <= 256) THEN fail("panic: description exceeds 256 bytes")
    ELSE IF ~(metadata_url_len <= 512) THEN fail("panic: metadata_url exceeds 512 bytes")
    ELSE IF initial_liquidity > 0 /\ ~CanTransfer(token, creator, initial_liquidity)
    THEN fail("panic: transfer failed")
    ELSE
        /\ Pool' = Put(Pool, pool_id, pool)
        /\ balance' = IF initial_liquidity > 0
                      THEN Transfer(balance, token, creator, Contract, initial_liquidity)
                      ELSE balance
        /\ CategoryPoolIndex' = Put(CategoryPoolIndex, <<category, category_count>>, pool_id)
        /\ CategoryPoolCount' = Put(CategoryPoolCount, category, category_count + 1)
        /\ instance' = Put(instance, "PoolIdCounter", pool_id + 1)
        /\ last' = Call("create_pool", creator, pool_id, "ok", pool_id)
        /\ UNCHANGED <<Prediction, HasClaimed, OutcomeStake, OutcomeStakes,
                       UserPredictionCount, UserPredictionIndex, TokenWhitelist,
                       now, payouts, deposited>>

\* A faulty variant of the resolution: an outcome nobody staked on is refused.
Resolved_requiring_winners(op, caller, pool_id, outcome) ==
    IF VecGetOr0(get_outcome_stakes(pool_id, Pool[pool_id].options_count), outcome) = 0
    THEN Fail(op, caller, pool_id, "panic: no winners")
    ELSE
    /\ Pool' = [Pool EXCEPT ![pool_id] =
                    [@ EXCEPT !.state = "Resolved", !.resolved = TRUE,
                              !.outcome = outcome]]
    /\ last' = Call(op, caller, pool_id, "ok", 0)
    /\ UNCHANGED <<instance, Prediction, HasClaimed, OutcomeStake, OutcomeStakes,
                   UserPredictionCount, UserPredictionIndex, CategoryPoolCount,
                   CategoryPoolIndex, TokenWhitelist, balance, now, payouts, deposited>>

\* A faulty variant of the resolution's writes: the state becomes Resolved
\* but the resolved flag is left as it was.
Resolved_state_only(op, caller, pool_id, outcome) ==
    /\ Pool' = [Pool EXCEPT ![pool_id] =
                    [@ EXCEPT !.state = "Resolved", !.outcome = outcome]]
    /\ last' = Call(op, caller, pool_id, "ok", 0)
    /\ UNCHANGED <<instance, Prediction, HasClaimed, OutcomeStake, OutcomeStakes,
                   UserPredictionCount, UserPredictionIndex, CategoryPoolCount,
                   CategoryPoolIndex, TokenWhitelist, balance, now, payouts, deposited>>

\* The writes of a successful resolution (lib.rs 959-964 and 1444-1449).
Resolved(op, caller, pool_id, outcome) ==
    /\ Pool' = [Pool EXCEPT ![pool_id] =
                    [@ EXCEPT !.state = "Resolved", !.resolved = TRUE,
                              !.outcome = outcome]]
    /\ last' = Call(op, caller, pool_id, "ok", 0)
    /\ UNCHANGED <<instance, Prediction, HasClaimed, OutcomeStake, OutcomeStakes,
                   UserPredictionCount, UserPredictionIndex, CategoryPoolCount,
                   CategoryPoolIndex, TokenWhitelist, balance, now, payouts, deposited>>

\* A faulty variant of resolve_pool: it does not look at the pool's state or
\* flags and resolves a settled pool again.
resolve_pool_unchecked(operator, pool_id, outcome) ==
    LET fail(res) == Fail("resolve_pool", operator, pool_id, res) IN
    IF is_paused THEN fail("panic: Contract is paused")
    ELSE IF ~HasConfig THEN fail("panic: Config not set")
    ELSE IF ~require_role(operator, 1) THEN fail("Unauthorized")
    ELSE IF pool_id \notin DOMAIN Pool THEN fail("panic: Pool not found")
    ELSE IF now < SaturatingAdd(Pool[pool_id].end_time,
                                instance["Config"].resolution_delay)
    THEN fail("ResolutionDelayNotMet")
    ELSE IF ~(outcome < Pool[pool_id].options_count)
    THEN fail("panic: outcome exceeds options_count or invalid state transition")
    ELSE Resolved("resolve_pool", operator, pool_id, outcome)

\* resolve_pool (lib.rs 912-988)
resolve_pool(operator, pool_id, outcome) ==
    LET fail(res) == Fail("resolve_pool", operator, pool_id, res) IN
    IF is_paused THEN fail("panic: Contract is paused")
    ELSE IF ~HasConfig THEN fail("panic: Config not set")
    ELSE IF ~require_role(operator, 1) THEN fail("Unauthorized")
    ELSE IF pool_id \notin DOMAIN Pool THEN fail("panic: Pool not found")
    ELSE IF Pool[pool_id].resolved THEN fail("panic: Pool already resolved")
    ELSE IF Pool[pool_id].canceled THEN fail("panic: Cannot resolve a canceled pool")
    ELSE IF Pool[pool_id].state # "Active" THEN fail("InvalidPoolState")
    ELSE IF now < SaturatingAdd(Pool[pool_id].end_time,
                                instance["Config"].resolution_delay)
    THEN fail("ResolutionDelayNotMet")
    ELSE IF ~(/\ outcome < Pool[pool_id].options_count
              /\ is_valid_state_transition(Pool[pool_id].state, "Resolved"))
    THEN fail("panic: outcome exceeds options_count or invalid state transition")
    ELSE Resolved("resolve_pool", operator, pool_id, outcome)

\* A faulty variant of oracle_resolve: the oracle need not wait for the
\* resolution delay.
oracle_resolve_ignoring_delay(oracle, pool_id, outcome) ==
    LET fail(res) == Fail("oracle_resolve", oracle, pool_id, res) IN
    IF is_paused THEN fail("panic: Contract is paused")
    ELSE IF ~HasConfig THEN fail("panic: Config not set")
    ELSE IF ~require_role(oracle, 3) THEN fail("Unauthorized")
    ELSE IF pool_id \notin DOMAIN Pool THEN fail("panic: Pool not found")
    ELSE IF Pool[pool_id].resolved THEN fail("panic: Pool already resolved")
    ELSE IF Pool[pool_id].canceled THEN fail("panic: Cannot resolve a canceled pool")
    ELSE IF Pool[pool_id].state # "Active" THEN fail("InvalidPoolState")
    ELSE IF ~(/\ outcome < Pool[pool_id].options_count
              /\ is_valid_state_transition(Pool[pool_id].state, "Resolved"))
    THEN fail("panic: outcome exceeds options_count or invalid state transition")
    ELSE Resolved("oracle_resolve", oracle, pool_id, outcome)

\* A faulty variant of oracle_resolve: the outcome is not compared with
\* options_count.
oracle_resolve_any_outcome(oracle, pool_id, outcome) ==
    LET fail(res) == Fail("oracle_resolve", oracle, pool_id, res) IN
    IF is_paused THEN fail("panic: Contract is paused")
    ELSE IF ~HasConfig THEN fail("panic: Config not set")
    ELSE IF ~require_role(oracle, 3) THEN fail("Unauthorized")
    ELSE IF pool_id \notin DOMAIN Pool THEN fail("panic: Pool not found")
    ELSE IF Pool[pool_id].resolved THEN fail("panic: Pool already resolved")
    ELSE IF Pool[pool_id].canceled THEN fail("panic: Cannot resolve a canceled pool")
    ELSE IF Pool[pool_id].state # "Active" THEN fail("InvalidPoolState")
    ELSE IF now < SaturatingAdd(Pool[pool_id].end_time,
                                instance["Config"].resolution_delay)
    THEN fail("ResolutionDelayNotMet")
    ELSE Resolved("oracle_resolve", oracle, pool_id, outcome)

\* oracle_resolve (lib.rs 1394-1482)
oracle_resolve(oracle, pool_id, outcome) ==
    LET fail(res) == Fail("oracle_resolve", oracle, pool_id, res) IN
    IF is_paused THEN fail("panic: Contract is paused")
    ELSE IF ~HasConfig THEN fail("panic: Config not set")
    ELSE IF ~require_role(oracle, 3) THEN fail("Unauthorized")
    ELSE IF pool_id \notin DOMAIN Pool THEN fail("panic: Pool not found")
    ELSE IF Pool[pool_id].resolved THEN fail("panic: Pool already resolved")
    ELSE IF Pool[pool_id].canceled THEN fail("panic: Cannot resolve a canceled pool")
    ELSE IF Pool[pool_id].state # "Active" THEN fail("InvalidPoolState")
    ELSE IF now < SaturatingAdd(Pool[pool_id].end_time,
                                instance["Config"].resolution_delay)
    THEN fail("ResolutionDelayNotMet")
    ELSE IF ~(/\ outcome < Pool[pool_id].options_count
              /\ is_valid_state_transition(Pool[pool_id].state, "Resolved"))
    THEN fail("panic: outcome exceeds options_count or invalid state transition")
    ELSE Resolved("oracle_resolve", oracle, pool_id, outcome)

\* A faulty variant of mark_pool_ready: a settled pool is reported as one
\* whose resolution delay has not been met.
mark_pool_ready_delay_only(pool_id) ==
    LET fail(res) == Fail("mark_pool_ready", "none", pool_id, res) IN
    IF pool_id \notin DOMAIN Pool THEN fail("panic: Pool not found")
    ELSE IF ~HasConfig THEN fail("panic: Config not set")
    ELSE IF /\ Pool[pool_id].state = "Active"
            /\ now >= SaturatingAdd(Pool[pool_id].end_time,
                                     instance["Config"].resolution_delay)
    THEN fail("ok")
    ELSE fail("ResolutionDelayNotMet")

\* A faulty variant of mark_pool_ready: on success it stores the pool with
\* its resolved flag set.
mark_pool_ready_storing(pool_id) ==
    LET fail(res) == Fail("mark_pool_ready", "none", pool_id, res) IN
    IF pool_id \notin DOMAIN Pool THEN fail("panic: Pool not found")
    ELSE IF Pool[pool_id].state # "Active" THEN fail("InvalidPoolState")
    ELSE IF ~HasConfig THEN fail("panic: Config not set")
    ELSE IF now >= SaturatingAdd(Pool[pool_id].end_time,
                                 instance["Config"].resolution_delay)
    THEN /\ Pool' = [Pool EXCEPT ![pool_id].resolved = TRUE]
         /\ last' = Call("mark_pool_ready", "none", pool_id, "ok", 0)
         /\ UNCHANGED <<instance, Prediction, HasClaimed, OutcomeStake, OutcomeStakes,
                        UserPredictionCount, UserPredictionIndex, CategoryPoolCount,
                        CategoryPoolIndex, TokenWhitelist, balance, now, payouts,
                        deposited>>
    ELSE fail("ResolutionDelayNotMet")

\* mark_pool_ready (lib.rs 992-1017): writes nothing.
mark_pool_ready(pool_id) ==
    LET fail(res) == Fail("mark_pool_ready", "none", pool_id, res) IN
    IF pool_id \notin DOMAIN Pool THEN fail("panic: Pool not found")
    ELSE IF Pool[pool_id].state # "Active" THEN fail("InvalidPoolState")
    ELSE IF ~HasConfig THEN fail("panic: Config not set")
    ELSE IF now >= SaturatingAdd(Pool[pool_id].end_time,
                                 instance["Config"].resolution_delay)
    THEN Fail("mark_pool_ready", "none", pool_id, "ok")
    ELSE fail("ResolutionDelayNotMet")

\* A faulty variant of cancel_pool: it refuses only a pool that is already
\* canceled, and cancels a resolved one.
cancel_pool_unchecked(operator, pool_id) ==
    LET fail(res) == Fail("cancel_pool", operator, pool_id, res) IN
    IF is_paused THEN fail("panic: Contract is paused")
    ELSE IF ~HasConfig THEN fail("panic: Config not set")
    ELSE IF ~require_role(operator, 1) THEN fail("Unauthorized")
    ELSE IF pool_id \notin DOMAIN Pool THEN fail("panic: Pool not found")
    ELSE IF Pool[pool_id].canceled THEN fail("panic: Pool already canceled")
    ELSE
        /\ Pool' = [Pool EXCEPT ![pool_id] =
                        [@ EXCEPT !.state = "Canceled", !.canceled = TRUE]]
        /\ last' = Call("cancel_pool", operator, pool_id, "ok", 0)
        /\ UNCHANGED <<instance, Prediction, HasClaimed, OutcomeStake, OutcomeStakes,
                       UserPredictionCount, UserPredictionIndex, CategoryPoolCount,
                       CategoryPoolIndex, TokenWhitelist, balance, now, payouts,
                       deposited>>

\* cancel_pool (lib.rs 1033-1077)
cancel_pool(operator, pool_id) ==
    LET fail(res) == Fail("cancel_pool", operator, pool_id, res) IN
    IF is_paused THEN fail("panic: Contract is paused")
    ELSE IF ~HasConfig THEN fail("panic: Config not set")
    ELSE IF ~require_role(operator, 1) THEN fail("Unauthorized")
    ELSE IF pool_id \notin DOMAIN Pool THEN fail("panic: Pool not found")
    ELSE IF Pool[pool_id].resolved THEN fail("PoolNotResolved")
    ELSE IF Pool[pool_id].canceled THEN fail("panic: Pool already canceled")
    ELSE IF ~is_valid_state_transition(Pool[pool_id].state, "Canceled")
    THEN fail("panic: Invalid state transition")
    ELSE
        /\ Pool' = [Pool EXCEPT ![pool_id] =
                        [@ EXCEPT !.state = "Canceled", !.canceled = TRUE]]
        /\ last' = Call("cancel_pool", operator, pool_id, "ok", 0)
        /\ UNCHANGED <<instance, Prediction, HasClaimed, OutcomeStake, OutcomeStakes,
                       UserPredictionCount, UserPredictionIndex, CategoryPoolCount,
                       CategoryPoolIndex, TokenWhitelist, balance, now, payouts, deposited>>

\* ------------------------------------------------------------ stake ledger
\* A faulty variant of update_outcome_stake: the storage keys leave out the
\* pool id, so every pool's stakes land in the entries of pool 0.
update_outcome_stake_unkeyed(pool_id, outcome, amount, options_count) ==
    LET stakes == get_outcome_stakes(0, options_count)
        current == VecGetOr0(stakes, outcome)
    IN
    /\ OutcomeStakes' = Put(OutcomeStakes, 0,
                            [stakes EXCEPT ![outcome + 1] = current + amount])
    /\ OutcomeStake' = Put(OutcomeStake, <<0, outcome>>, current + amount)

\* A faulty variant of update_outcome_stake: the outcome's stake is replaced
\* by the amount instead of growing by it.
update_outcome_stake_overwriting(pool_id, outcome, amount, options_count) ==
    LET stakes == get_outcome_stakes(pool_id, options_count)
    IN
    /\ OutcomeStakes' = Put(OutcomeStakes, pool_id,
                            [stakes EXCEPT ![outcome + 1] = amount])
    /\ OutcomeStake' = Put(OutcomeStake, <<pool_id, outcome>>, amount)

\* A faulty variant of update_outcome_stake: only the batched vector is
\* written.
update_outcome_stake_batch_only(pool_id, outcome, amount, options_count) ==
    LET stakes == get_outcome_stakes(pool_id, options_count)
        current == VecGetOr0(stakes, outcome)
    IN
    /\ OutcomeStakes' = Put(OutcomeStakes, pool_id,
                            [stakes EXCEPT ![outcome + 1] = current + amount])
    /\ OutcomeStake' = OutcomeStake

\* update_outcome_stake (lib.rs 459-483): writes the batched vector and the
\* per-outcome key together.
update_outcome_stake(pool_id, outcome, amount, options_count) ==
    LET stakes == get_outcome_stakes(pool_id, options_count)
        current == VecGetOr0(stakes, outcome)
    IN
    /\ OutcomeStakes' = Put(OutcomeStakes, pool_id,
                            [stakes EXCEPT ![outcome + 1] = current + amount])
    /\ OutcomeStake' = Put(OutcomeStake, <<pool_id, outcome>>, current + amount)

\* A faulty variant: staking never closes.
has_ended_never(pool) == FALSE

\* The staking deadline (lib.rs 1096): the ledger time has reached end_time.
has_ended(pool) == ~(now < pool.end_time)

\* A faulty variant of place_prediction: a further stake of the same user on
\* the same pool is added to the amount of the stored prediction.
place_prediction_accumulating(user, pool_id, amount, outcome) ==
    LET fail(res) == Fail("place_prediction", user, pool_id, res)
        count == GetOr(UserPredictionCount, user, 0)
    IN
    IF is_paused THEN fail("panic: Contract is paused")
    ELSE IF ~(amount > 0) THEN fail("panic: amount must be positive")
    ELSE IF pool_id \notin DOMAIN Pool THEN fail("panic: Pool not found")
    ELSE IF Pool[pool_id].resolved THEN fail("panic: Pool already resolved")
    ELSE IF Pool[pool_id].canceled
    THEN fail("panic: Cannot place prediction on canceled pool")
    ELSE IF Pool[pool_id].state # "Active" THEN fail("panic: Pool is not active")
    ELSE IF has_ended(Pool[pool_id]) THEN fail("panic: Pool has ended")
    ELSE IF ~(outcome < Pool[pool_id].options_count)
    THEN fail("panic: outcome exceeds options_count")
    ELSE IF ~CanTransfer(Pool[pool_id].token, user, amount)
    THEN fail("panic: transfer failed")
    ELSE IF CheckedAdd(Pool[pool_id].total_stake, amount) = -1
    THEN fail("panic: overflow")
    ELSE
        /\ balance' = Transfer(balance, Pool[pool_id].token, user, Contract, amount)
        /\ Prediction' = Put(Prediction, <<user, pool_id>>,
                             [amount |-> amount + GetOr(Prediction, <<user, pool_id>>,
                                                           [amount |-> 0]).amount,
                              outcome |-> outcome])
        /\ Pool' = [Pool EXCEPT ![pool_id].total_stake =
                        CheckedAdd(Pool[pool_id].total_stake, amount)]
        /\ update_outcome_stake(pool_id, outcome, amount, Pool[pool_id].options_count)
        /\ UserPredictionIndex' = Put(UserPredictionIndex, <<user, count>>, pool_id)
        /\ UserPredictionCount' = Put(UserPredictionCount, user, count + 1)
        /\ deposited' = Put(deposited, <<user, pool_id>>,
                             GetOr(deposited, <<user, pool_id>>, 0) + amount)
        /\ last' = Call("place_prediction", user, pool_id, "ok", 0)
        /\ UNCHANGED <<instance, HasClaimed, CategoryPoolCount, CategoryPoolIndex,
                       TokenWhitelist, now, payouts>>

\* place_prediction (lib.rs 1081-1163)
place_prediction(user, pool_id, amount, outcome) ==
    LET fail(res) == Fail("place_prediction", user, pool_id, res)
        count == GetOr(UserPredictionCount, user, 0)
    IN
    IF is_paused THEN fail("panic: Contract is paused")
    ELSE IF ~(amount > 0) THEN fail("panic: amount must be positive")
    ELSE IF pool_id \notin DOMAIN Pool THEN fail("panic: Pool not found")
    ELSE IF Pool[pool_id].resolved THEN fail("panic: Pool already resolved")
    ELSE IF Pool[pool_id].canceled
    THEN fail("panic: Cannot place prediction on canceled pool")
    ELSE IF Pool[pool_id].state # "Active" THEN fail("panic: Pool is not active")
    ELSE IF has_ended(Pool[pool_id]) THEN fail("panic: Pool has ended")
    ELSE IF ~(outcome < Pool[pool_id].options_count)
    THEN fail("panic: outcome exceeds options_count")
    ELSE IF ~CanTransfer(Pool[pool_id].token, user, amount)
    THEN fail("panic: transfer failed")
    ELSE IF CheckedAdd(Pool[pool_id].total_stake, amount) = -1
    THEN fail("panic: overflow")
    ELSE
        /\ balance' = Transfer(balance, Pool[pool_id].token, user, Contract, amount)
        /\ Prediction' = Put(Prediction, <<user, pool_id>>,
                             [amount |-> amount, outcome |-> outcome])
        /\ Pool' = [Pool EXCEPT ![pool_id].total_stake =
                        CheckedAdd(Pool[pool_id].total_stake, amount)]
        /\ update_outcome_stake(pool_id, outcome, amount, Pool[pool_id].options_count)
        /\ UserPredictionIndex' = Put(UserPredictionIndex, <<user, count>>, pool_id)
        /\ UserPredictionCount' = Put(UserPredictionCount, user, count + 1)
        /\ deposited' = Put(deposited, <<user, pool_id>>,
                             GetOr(deposited, <<user, pool_id>>, 0) + amount)
        /\ last' = Call("place_prediction", user, pool_id, "ok", 0)
        /\ UNCHANGED <<instance, HasClaimed, CategoryPoolCount, CategoryPoolIndex,
                       TokenWhitelist, now, payouts>>

\* A faulty variant of the claim's writes: the payment is made and no
\* receipt is written.
Claimed_without_receipt(user, pool_id, amount) ==
    /\ balance' = IF amount > 0
                  THEN Transfer(balance, Pool[pool_id].token, Contract, user, amount)
                  ELSE balance
    /\ payouts' = Put(payouts, <<user, pool_id>>,
                      Append(GetOr(payouts, <<user, pool_id>>, <<>>), amount))
    /\ last' = Call("claim_winnings", user, pool_id, "ok", amount)
    /\ UNCHANGED <<instance, Pool, Prediction, HasClaimed, OutcomeStake, OutcomeStakes,
                   UserPredictionCount, UserPredictionIndex, CategoryPoolCount,
                   CategoryPoolIndex, TokenWhitelist, now, deposited>>

\* A faulty variant of the claim's writes: on a canceled pool the creator is
\* paid the pool's initial liquidity on top of the amount.
Claimed_returning_liquidity(user, pool_id, amount) ==
    LET paid == IF Pool[pool_id].state = "Canceled" /\ user = Pool[pool_id].creator
                THEN amount + Pool[pool_id].initial_liquidity
                ELSE amount
    IN  /\ HasClaimed' = Put(HasClaimed, <<user, pool_id>>, TRUE)
        /\ balance' = IF paid > 0
                      THEN Transfer(balance, Pool[pool_id].token, Contract, user, paid)
                      ELSE balance
        /\ payouts' = Put(payouts, <<user, pool_id>>,
                          Append(GetOr(payouts, <<user, pool_id>>, <<>>), paid))
        /\ last' = Call("claim_winnings", user, pool_id, "ok", paid)
        /\ UNCHANGED <<instance, Pool, Prediction, OutcomeStake, OutcomeStakes,
                       UserPredictionCount, UserPredictionIndex, CategoryPoolCount,
                       CategoryPoolIndex, TokenWhitelist, now, deposited>>

\* ------------------------------------------------------------ settlement
\* A claim that returns Ok(amount): the receipt is written, `amount` (when
\* positive) is transferred to the user.
Claimed(user, pool_id, amount) ==
    /\ HasClaimed' = Put(HasClaimed, <<user, pool_id>>, TRUE)
    /\ balance' = IF amount > 0
                  THEN Transfer(balance, Pool[pool_id].token, Contract, user, amount)
                  ELSE balance
    /\ payouts' = Put(payouts, <<user, pool_id>>,
                      Append(GetOr(payouts, <<user, pool_id>>, <<>>), amount))
    /\ last' = Call("claim_winnings", user, pool_id, "ok", amount)
    /\ UNCHANGED <<instance, Pool, Prediction, OutcomeStake, OutcomeStakes,
                   UserPredictionCount, UserPredictionIndex, CategoryPoolCount,
                   CategoryPoolIndex, TokenWhitelist, now, deposited>>

\* Faulty variants: the receipt is never found; no prediction ever loses.
already_claimed_never(user, pool_id) == FALSE

lost_never(prediction, pool) == FALSE

\* A faulty variant: no pool counts as unsettled.
unsettled_never(pool) == FALSE

\* The settlement check (lib.rs 1181): the pool is still Active.
unsettled(pool) == pool.state = "Active"

\* The receipt check (lib.rs 1185-1186).
already_claimed(user, pool_id) == <<user, pool_id>> \in DOMAIN HasClaimed

\* The loser's branch (lib.rs 1228): the recorded outcome is not the winning one.
lost(prediction, pool) == prediction.outcome # pool.outcome

\* claim_winnings (lib.rs 1169-1257)
claim_winnings(user, pool_id) ==
    LET fail(res) == Fail("claim_winnings", user, pool_id, res)
        pool == Pool[pool_id]
        prediction == Prediction[<<user, pool_id>>]
        stakes == get_outcome_stakes(pool_id, pool.options_count)
        winning_stake == VecGetOr0(stakes, pool.outcome)
        winnings == calculate_winnings(prediction.amount, winning_stake,
                                       pool.total_stake)
    IN
    IF is_paused THEN fail("panic: Contract is paused")
    ELSE IF pool_id \notin DOMAIN Pool THEN fail("panic: Pool not found")
    ELSE IF unsettled(pool) THEN fail("PoolNotResolved")
    ELSE IF already_claimed(user, pool_id) THEN fail("AlreadyClaimed")
    ELSE IF <<user, pool_id>> \notin DOMAIN Prediction THEN Claimed(user, pool_id, 0)
    ELSE IF pool.state = "Canceled"
    THEN IF ~CanTransfer(pool.token, Contract, prediction.amount)
         THEN fail("panic: transfer failed")
         ELSE Claimed(user, pool_id, prediction.amount)
    ELSE IF lost(prediction, pool) THEN Claimed(user, pool_id, 0)
    ELSE IF winning_stake = 0 THEN Claimed(user, pool_id, 0)
    ELSE IF winnings = -1 THEN fail("panic: overflow in winnings calculation")
    ELSE IF ~(winnings <= pool.total_stake) THEN fail("panic: Winnings exceed total stake")
    ELSE IF ~CanTransfer(pool.token, Contract, winnings)
    THEN fail("panic: transfer failed")
    ELSE Claimed(user, pool_id, winnings)

\* claim_winnings in two steps, with the token contract's code running in
\* between.  The record of a claim that has asked the token contract for a
\* transfer and has not returned yet: `ret` is the amount asked for,
\* `reentered` the results of the calls made back into claim_winnings since.
Frame(user, pool_id, amount, reentered) ==
    [op |-> "claim_winnings", caller |-> user, pool |-> pool_id,
     res |-> "transfer requested", ret |-> amount, reentered |-> reentered]

InFlight == last.res = "transfer requested"

\* A faulty variant of the first step: the receipt is left to be written
\* after the transfer.
claim_winnings_until_transfer_unmarked(user, pool_id) ==
    LET pool == Pool[pool_id]
        prediction == Prediction[<<user, pool_id>>]
        stakes == get_outcome_stakes(pool_id, pool.options_count)
        winning_stake == VecGetOr0(stakes, pool.outcome)
        winnings == calculate_winnings(prediction.amount, winning_stake,
                                       pool.total_stake)
    IN
    /\ ~is_paused
    /\ pool_id \in DOMAIN Pool
    /\ ~unsettled(pool)
    /\ ~already_claimed(user, pool_id)
    /\ <<user, pool_id>> \in DOMAIN Prediction
    /\ \/ pool.state = "Canceled"
       \/ /\ ~lost(prediction, pool)
          /\ winning_stake # 0
          /\ winnings # -1
          /\ winnings <= pool.total_stake
    /\ last' = Frame(user, pool_id,
                     IF pool.state = "Canceled" THEN prediction.amount ELSE winnings,
                     <<>>)
    /\ UNCHANGED <<storage, balance, now, payouts, deposited>>

\* claim_winnings from its entry to the call of token.transfer (lib.rs
\* 1170-1225 for a refund, 1170-1247 for winnings): the checks pass, the
\* receipt is written (lib.rs 1198), the amount is computed.
claim_winnings_until_transfer(user, pool_id) ==
    LET pool == Pool[pool_id]
        prediction == Prediction[<<user, pool_id>>]
        stakes == get_outcome_stakes(pool_id, pool.options_count)
        winning_stake == VecGetOr0(stakes, pool.outcome)
        winnings == calculate_winnings(prediction.amount, winning_stake,
                                       pool.total_stake)
    IN
    /\ ~is_paused
    /\ pool_id \in DOMAIN Pool
    /\ ~unsettled(pool)
    /\ ~already_claimed(user, pool_id)
    /\ HasClaimed' = Put(HasClaimed, <<user, pool_id>>, TRUE)
    /\ <<user, pool_id>> \in DOMAIN Prediction
    /\ \/ pool.state = "Canceled"
       \/ /\ ~lost(prediction, pool)
          /\ winning_stake # 0
          /\ winnings # -1
          /\ winnings <= pool.total_stake
    /\ last' = Frame(user, pool_id,
                     IF pool.state = "Canceled" THEN prediction.amount ELSE winnings,
                     <<>>)
    /\ UNCHANGED <<instance, Pool, Prediction, OutcomeStake, OutcomeStakes,
                   UserPredictionCount, UserPredictionIndex, CategoryPoolCount,
                   CategoryPoolIndex, TokenWhitelist, balance, now, payouts,
                   deposited>>

\* The token contract, while it handles the transfer, calls claim_winnings
\* again for the same user and pool.  With the receipt present the call
\* returns AlreadyClaimed (lib.rs 1185-1195); without it the call passes the
\* same checks as the first and asks for the transfer a second time.
claim_winnings_reentered ==
    /\ InFlight
    /\ Len(last.reentered) < 1
    /\ last' = Frame(last.caller, last.pool, last.ret,
                     Append(last.reentered,
                            IF already_claimed(last.caller, last.pool)
                            THEN "AlreadyClaimed" ELSE "transfer requested"))
    /\ UNCHANGED <<storage, balance, now, payouts, deposited>>

\* The token contract moves the amount and claim_winnings returns Ok (lib.rs
\* 1247-1256, 1216-1225).
claim_winnings_transfer_done ==
    /\ InFlight
    /\ CanTransfer(Pool[last.pool].token, Contract, last.ret)
    /\ balance' = Transfer(balance, Pool[last.pool].token, Contract, last.caller,
                           last.ret)
    /\ payouts' = Put(payouts, <<last.caller, last.pool>>,
                      Append(GetOr(payouts, <<last.caller, last.pool>>, <<>>),
                             last.ret))
    /\ last' = Call("claim_winnings", last.caller, last.pool, "ok", last.ret)
    /\ UNCHANGED <<storage, now, deposited>>

\* A faulty variant of the refused transfer: what claim_winnings wrote before
\* the transfer stays in storage.
claim_winnings_transfer_failed_keeping_receipt ==
    /\ InFlight
    /\ last' = Call("claim_winnings", last.caller, last.pool,
                    "panic: transfer failed", 0)
    /\ UNCHANGED <<storage, balance, now, payouts, deposited>>

\* The token contract refuses the transfer (it panics): the invocation
\* aborts and the host discards what it wrote, the receipt included.
claim_winnings_transfer_failed ==
    /\ InFlight
    /\ HasClaimed' = Remove(HasClaimed, <<last.caller, last.pool>>)
    /\ last' = Call("claim_winnings", last.caller, last.pool,
                    "panic: transfer failed", 0)
    /\ UNCHANGED <<instance, Pool, Prediction, OutcomeStake, OutcomeStakes,
                   UserPredictionCount, UserPredictionIndex, CategoryPoolCount,
                   CategoryPoolIndex, TokenWhitelist, balance, now, payouts,
                   deposited>>

\* ------------------------------------------------------------ queries
\* A faulty variant of u32::saturating_add: the sum wraps around.
SaturatingAdd32_wrapping(a, b) == (a + b) % (U32_MAX + 1)

\* u32::saturating_add and u32::saturating_sub
SaturatingAdd32(a, b) == Min(a + b, U32_MAX)
SaturatingSub32(a, b) == IF a - b < 0 THEN 0 ELSE a - b

\* The UserPredictionDetail built for one index entry (lib.rs 1281-1311).
UserPredictionDetail(user, pool_id) ==
    [pool_id |-> pool_id,
     amount |-> Prediction[<<user, pool_id>>].amount,
     user_outcome |-> Prediction[<<user, pool_id>>].outcome,
     pool_end_time |-> Pool[pool_id].end_time,
     pool_state |-> Pool[pool_id].state,
     pool_outcome |-> Pool[pool_id].outcome]

\* The vector get_user_predictions returns (lib.rs 1266-1315).
UserPredictionsPage(user, offset, limit) ==
    LET count == GetOr(UserPredictionCount, user, 0)
        end == Min(SaturatingAdd32(offset, limit), count)
    IN  IF offset >= count \/ limit = 0 THEN <<>>
        ELSE [j \in 1..(end - offset) |->
                 UserPredictionDetail(user, UserPredictionIndex[<<user, offset + j - 1>>])]

\* get_user_predictions (lib.rs 1260-1316): a read-only query.
get_user_predictions(user, offset, limit) ==
    /\ last' = Call("get_user_predictions", user, -1, "ok",
                    UserPredictionsPage(user, offset, limit))
    /\ UNCHANGED <<storage, balance, now, payouts, deposited>>

\* A faulty variant of the category page: it walks the index forward from
\* offset, oldest pool first.
PoolsByCategoryPage_oldest_first(category, offset, limit) ==
    LET count == GetOr(CategoryPoolCount, category, 0)
        num_to_take == Min(limit, SaturatingSub32(count, offset))
    IN  IF offset >= count \/ limit = 0 THEN <<>>
        ELSE [j \in 1..num_to_take |-> CategoryPoolIndex[<<category, offset + j - 1>>]]

\* The vector get_pools_by_category returns (lib.rs 1366-1388).
PoolsByCategoryPage(category, offset, limit) ==
    LET count == GetOr(CategoryPoolCount, category, 0)
        start_index == SaturatingSub32(SaturatingSub32(count, offset), 1)
        num_to_take == Min(limit, SaturatingSub32(count, offset))
    IN  IF offset >= count \/ limit = 0 THEN <<>>
        ELSE [j \in 1..num_to_take |->
                 CategoryPoolIndex[<<category, SaturatingSub32(start_index, j - 1)>>]]

\* get_pools_by_category (lib.rs 1359-1389): a read-only query.
get_pools_by_category(category, offset, limit) ==
    /\ last' = Call("get_pools_by_category", category, -1, "ok",
                    PoolsByCategoryPage(category, offset, limit))
    /\ UNCHANGED <<storage, balance, now, payouts, deposited>>

\* ------------------------------------------------------------ environment
\* The ledger closes: the timestamp moves forward to t.
AdvanceTime(t) ==
    /\ t > now
    /\ now' = t
    /\ last' = Call("advance_time", "none", -1, "ok", 0)
    /\ UNCHANGED <<storage, balance, payouts, deposited>>

\* A holder sends tokens straight to the contract's address with the token's
\* own transfer, outside every entry point of the contract.
Donate(holder, token, amount) ==
    /\ CanTransfer(token, holder, amount)
    /\ balance' = Transfer(balance, token, holder, Contract, amount)
    /\ last' = Call("donate", holder, -1, "ok", 0)
    /\ UNCHANGED <<storage, now, payouts, deposited>>

\* The token's issuer credits a holder; each balance stays within i128.
Mint(user, token, amount) ==
    /\ token \in DOMAIN balance
    /\ balance[token][user] + amount <= I128_MAX
    /\ balance' = [balance EXCEPT ![token][user] = @ + amount]
    /\ last' = Call("mint", user, -1, "ok", 0)
    /\ UNCHANGED <<storage, now, payouts, deposited>>

\* ------------------------------------------------------------ inputs
Treasuries == {"treasury"}
AccessControls == {"access_control"}
Liquidities == {0, 1}
Amounts == {1, 2}
Outcomes == {0, 1}
\* The ids create_pool may hand out before the model stops creating pools.
PoolIds == {0}

\* Deployment: the contract is initialized and the staking token allowed.
Deploy ==
    \/ /\ ~HasConfig
       /\ \E ac \in AccessControls, tr \in Treasuries : init(ac, tr, 0, 0)
    \/ \E t \in Tokens :
          /\ ~is_token_whitelisted(t)
          /\ add_token_to_whitelist("admin", t)

\* ------------------------------------------------------------ specification
\* The market's life under one configuration: pools are created, staked on,
\* resolved or canceled, and claimed.
Next ==
    \/ Deploy
    \/ \E l \in Liquidities, t \in Tokens, cat \in Categories :
          /\ GetOr(instance, "PoolIdCounter", 0) \in PoolIds
          /\ create_pool("alice", MIN_POOL_DURATION, t, 2, 0, 0, l, cat)
    \/ \E u \in Stakers, p \in PoolIds, a \in Amounts, o \in Outcomes :
          place_prediction(u, p, a, o)
    \/ \E p \in PoolIds, o \in Outcomes : resolve_pool("operator", p, o)
    \/ \E p \in PoolIds, o \in Outcomes : oracle_resolve("oracle", p, o)
    \/ \E p \in PoolIds : cancel_pool("operator", p)
    \/ \E u \in Stakers, p \in PoolIds : claim_winnings(u, p)
    \/ AdvanceTime(MIN_POOL_DURATION)
    \/ \E t \in Tokens : Donate(Donor, t, 1)

Spec == Init /\ [][Next]_vars

\* The market's life with the emergency switch: the admin pauses and unpauses
\* the contract at any moment between the other calls.
NextPause ==
    \/ Deploy
    \/ \E t \in Tokens, cat \in Categories :
          /\ GetOr(instance, "PoolIdCounter", 0) \in PoolIds
          /\ create_pool("alice", MIN_POOL_DURATION, t, 2, 0, 0, 1, cat)
    \/ \E u \in Stakers, p \in PoolIds, o \in Outcomes : place_prediction(u, p, 1, o)
    \/ \E p \in PoolIds, o \in Outcomes : resolve_pool("operator", p, o)
    \/ \E p \in PoolIds : cancel_pool("operator", p)
    \/ \E u \in Stakers, p \in PoolIds : claim_winnings(u, p)
    \/ pause("admin")
    \/ unpause("admin")
    \/ AdvanceTime(MIN_POOL_DURATION)

SpecPause == Init /\ [][NextPause]_vars

\* The resolution window: pools that end at the earliest and at the latest
\* possible time, a delay the admin changes, and resolution attempts before,
\* at and after the threshold.  The ledger's timestamp stays below u64::MAX.
EndTimes == {MIN_POOL_DURATION, U64_MAX}
Delays == {0, 1}
TimePoints == {MIN_POOL_DURATION - 1, MIN_POOL_DURATION, MIN_POOL_DURATION + 1}
ResolveOutcomes == {0, 1, 2}
TimePoolIds == {0, 1}

NextTime ==
    \/ Deploy
    \/ \E d \in Delays : set_resolution_delay("admin", d)
    \/ \E e \in EndTimes, t \in Tokens, cat \in Categories :
          /\ GetOr(instance, "PoolIdCounter", 0) \in TimePoolIds
          /\ create_pool("alice", e, t, 2, 0, 0, 0, cat)
    \/ \E c \in {"operator", "oracle"}, p \in TimePoolIds, o \in ResolveOutcomes :
          resolve_pool(c, p, o)
    \/ \E c \in {"operator", "oracle"}, p \in TimePoolIds, o \in ResolveOutcomes :
          oracle_resolve(c, p, o)
    \/ \E p \in TimePoolIds : mark_pool_ready(p)
    \/ \E p \in TimePoolIds : cancel_pool("operator", p)
    \/ \E t \in TimePoints : AdvanceTime(t)

SpecTime == Init /\ [][NextTime]_vars

\* The administrative surface: the contract is initialized with any fee, and
\* the admin and a caller without the admin role use every setter.
Fees == {0, MAX_FEE_BPS, MAX_FEE_BPS + 1}
Admins == {"admin", "alice"}

NextAdmin ==
    \/ \E ac \in AccessControls, tr \in Treasuries, f \in Fees, d \in Delays :
          init(ac, tr, f, d)
    \/ \E a \in Admins : pause(a)
    \/ \E a \in Admins : unpause(a)
    \/ \E a \in Admins, f \in Fees : set_fee_bps(a, f)
    \/ \E a \in Admins, tr \in Treasuries \cup {"vault"} : set_treasury(a, tr)
    \/ \E a \in Admins, d \in Delays : set_resolution_delay(a, d)
    \/ \E a \in Admins, t \in Tokens : add_token_to_whitelist(a, t)
    \/ \E a \in Admins, t \in Tokens : remove_token_from_whitelist(a, t)

SpecAdmin == Init /\ [][NextAdmin]_vars

\* Authorization: every role-gated entry point is called by the admin, the
\* operator, the oracle and a user without any role.
Callers == {"admin", "operator", "oracle", "alice"}

NextRoles ==
    \/ Deploy
    \/ \E t \in Tokens, cat \in Categories :
          /\ GetOr(instance, "PoolIdCounter", 0) \in PoolIds
          /\ create_pool("alice", MIN_POOL_DURATION, t, 2, 0, 0, 0, cat)
    \/ \E c \in Callers : pause(c)
    \/ \E c \in Callers : unpause(c)
    \/ \E c \in Callers, f \in {0, 1} : set_fee_bps(c, f)
    \/ \E c \in Callers, tr \in Treasuries \cup {"vault"} : set_treasury(c, tr)
    \/ \E c \in Callers, d \in Delays : set_resolution_delay(c, d)
    \/ \E c \in Callers, t \in Tokens : add_token_to_whitelist(c, t)
    \/ \E c \in Callers, t \in Tokens : remove_token_from_whitelist(c, t)
    \/ \E c \in Callers, p \in PoolIds, o \in Outcomes : resolve_pool(c, p, o)
    \/ \E c \in Callers, p \in PoolIds, o \in Outcomes : oracle_resolve(c, p, o)
    \/ \E c \in Callers, p \in PoolIds : cancel_pool(c, p)
    \/ AdvanceTime(MIN_POOL_DURATION + 1)

SpecRoles == Init /\ [][NextRoles]_vars

\* The pause gate: while the admin pauses and unpauses, every entry point is
\* called with valid and with invalid arguments (a caller without the role, a
\* pool that does not exist, a token that is not allowed, a zero amount, a fee
\* above the maximum).
GatePoolIds == {0, 1}

NextGate ==
    \/ Deploy
    \/ pause("admin")
    \/ unpause("admin")
    \/ \E t \in Tokens \cup {"FAKE"}, cat \in Categories :
          /\ GetOr(instance, "PoolIdCounter", 0) \in PoolIds
          /\ create_pool("alice", MIN_POOL_DURATION, t, 2, 0, 0, 0, cat)
    \/ \E p \in GatePoolIds, a \in {0, 1} : place_prediction("alice", p, a, 0)
    \/ \E c \in {"operator", "alice"}, p \in GatePoolIds : resolve_pool(c, p, 0)
    \/ \E c \in {"oracle", "alice"}, p \in GatePoolIds : oracle_resolve(c, p, 1)
    \/ \E c \in {"operator", "alice"}, p \in GatePoolIds : cancel_pool(c, p)
    \/ \E p \in GatePoolIds : claim_winnings("alice", p)
    \/ \E a \in Admins, f \in {0, MAX_FEE_BPS + 1} : set_fee_bps(a, f)
    \/ \E a \in Admins, tr \in Treasuries : set_treasury(a, tr)
    \/ \E a \in Admins : set_resolution_delay(a, 0)
    \/ \E a \in Admins, t \in Tokens : add_token_to_whitelist(a, t)
    \/ \E a \in Admins, t \in Tokens : remove_token_from_whitelist(a, t)
    \/ \E p \in GatePoolIds : mark_pool_ready(p)
    \/ AdvanceTime(MIN_POOL_DURATION)

SpecGate == Init /\ [][NextGate]_vars

\* Pool creation: create_pool is called with arguments on both sides of every
\* bound it checks, by a creator who can and one who cannot fund the liquidity,
\* at two ledger times.
CreateTokens == Tokens \cup {"FAKE"}
CreateEndTimes == {0, MIN_POOL_DURATION, MIN_POOL_DURATION + 1}
OptionCounts == {1, 2, MAX_OPTIONS_COUNT, MAX_OPTIONS_COUNT + 1}
CreateLiquidities == {-1, 0, MAX_INITIAL_LIQUIDITY, MAX_INITIAL_LIQUIDITY + 1}
Creators == {"alice", "admin"}
CreatePoolIds == {0, 1}

NextCreate ==
    \/ Deploy
    \/ \E c \in Creators, e \in CreateEndTimes, t \in CreateTokens,
          n \in OptionCounts, l \in CreateLiquidities, cat \in Categories :
          /\ GetOr(instance, "PoolIdCounter", 0) \in CreatePoolIds
          /\ create_pool(c, e, t, n, 0, 0, l, cat)
    \/ AdvanceTime(1)

SpecCreate == Init /\ [][NextCreate]_vars

\* Id allocation: three pools are created, between failed creations and while
\* earlier pools are staked on and canceled.
IdPoolIds == {0, 1, 2}

NextIds ==
    \/ Deploy
    \/ \E t \in CreateTokens, n \in {1, 2}, l \in Liquidities, cat \in Categories :
          /\ GetOr(instance, "PoolIdCounter", 0) \in IdPoolIds
          /\ create_pool("alice", MIN_POOL_DURATION, t, n, 0, 0, l, cat)
    \/ \E p \in IdPoolIds : place_prediction("bob", p, 1, 0)
    \/ \E p \in IdPoolIds : cancel_pool("operator", p)
    \/ \E ac \in AccessControls, tr \in Treasuries : init(ac, tr, 0, 0)

SpecIds == Init /\ [][NextIds]_vars

\* Initialization: init is called with every combination of arguments before
\* and after the first initialization, between configuration changes, pool
\* creations and stakes, and while the contract is paused.
NextInit ==
    \/ \E ac \in AccessControls, tr \in Treasuries \cup {"vault"}, f \in {0, 1},
          d \in Delays : init(ac, tr, f, d)
    \/ \E t \in Tokens : add_token_to_whitelist("admin", t)
    \/ \E f \in {0, 1} : set_fee_bps("admin", f)
    \/ pause("admin")
    \/ unpause("admin")
    \/ \E t \in Tokens, l \in Liquidities, cat \in Categories :
          /\ GetOr(instance, "PoolIdCounter", 0) \in CreatePoolIds
          /\ create_pool("alice", MIN_POOL_DURATION, t, 2, 0, 0, l, cat)
    \/ \E p \in CreatePoolIds : place_prediction("bob", p, 1, 0)

SpecInit == Init /\ [][NextInit]_vars

\* The read side: one user stakes and re-stakes on pools of two categories,
\* pools are resolved, and the paginated queries are called with offsets and
\* limits below, at and beyond the number of entries.
QueryCategories == {"sports", "politics"}
QueryPoolIds == {0, 1}
Offsets == {0, 1, 2, U32_MAX}
Limits == {0, 1, 2, U32_MAX}

NextQuery ==
    \/ Deploy
    \/ \E t \in Tokens, cat \in QueryCategories :
          /\ GetOr(instance, "PoolIdCounter", 0) \in QueryPoolIds
          /\ create_pool("alice", MIN_POOL_DURATION, t, 2, 0, 0, 0, cat)
    \/ \E p \in QueryPoolIds, a \in Amounts : place_prediction("alice", p, a, 1)
    \/ \E p \in QueryPoolIds : resolve_pool("operator", p, 1)
    \/ \E u \in Stakers, off \in Offsets, lim \in Limits :
          get_user_predictions(u, off, lim)
    \/ AdvanceTime(MIN_POOL_DURATION)

SpecQuery == Init /\ [][NextQuery]_vars

\* The category index: pools of two categories are created, some are
\* cancelled, and the category pages are queried.
CategoryPoolIds == {0, 1, 2}

NextCategory ==
    \/ Deploy
    \/ \E t \in Tokens, cat \in QueryCategories :
          /\ GetOr(instance, "PoolIdCounter", 0) \in CategoryPoolIds
          /\ create_pool("alice", MIN_POOL_DURATION, t, 2, 0, 0, 0, cat)
    \/ \E p \in CategoryPoolIds : cancel_pool("operator", p)
    \/ \E cat \in QueryCategories, off \in Offsets, lim \in Limits :
          get_pools_by_category(cat, off, lim)

SpecCategory == Init /\ [][NextCategory]_vars

\* claim_winnings interleaved with the token contract: a claim that reaches
\* its transfer stays in flight until the token contract has moved the amount
\* or refused; meanwhile the only code that runs is the token contract's,
\* which may call claim_winnings again.  Claims that end without a transfer
\* are taken whole.
NextReentry ==
    \/ ~InFlight /\ Deploy
    \/ /\ ~InFlight
       /\ \E t \in Tokens, cat \in Categories :
             /\ GetOr(instance, "PoolIdCounter", 0) \in PoolIds
             /\ create_pool("alice", MIN_POOL_DURATION, t, 2, 0, 0, 0, cat)
    \/ /\ ~InFlight
       /\ \E u \in Stakers, p \in PoolIds, a \in Amounts, o \in Outcomes :
             place_prediction(u, p, a, o)
    \/ ~InFlight /\ \E p \in PoolIds, o \in Outcomes : resolve_pool("operator", p, o)
    \/ ~InFlight /\ \E p \in PoolIds : cancel_pool("operator", p)
    \/ /\ ~InFlight
       /\ \E u \in Stakers, p \in PoolIds :
             claim_winnings(u, p) /\ last'.ret = 0
    \/ /\ ~InFlight
       /\ \E u \in Stakers, p \in PoolIds : claim_winnings_until_transfer(u, p)
    \/ claim_winnings_reentered
    \/ claim_winnings_transfer_done
    \/ claim_winnings_transfer_failed
    \/ ~InFlight /\ AdvanceTime(MIN_POOL_DURATION)

SpecReentry == Init /\ [][NextReentry]_vars

\* The stake ledger: a pool with two or with three outcomes, with or without
\* initial liquidity, is staked on repeatedly (in range and out of range) by
\* two users and cancelled.
StakeOptionCounts == {2, 3}
StakeOutcomes == {0, 1, 2, 3}
StakePoolIds == {0}

NextStakes ==
    \/ Deploy
    \/ \E n \in StakeOptionCounts, l \in Liquidities, t \in Tokens, cat \in Categories :
          /\ GetOr(instance, "PoolIdCounter", 0) \in StakePoolIds
          /\ create_pool("alice", MIN_POOL_DURATION, t, n, 0, 0, l, cat)
    \/ \E u \in Stakers, p \in StakePoolIds, a \in Amounts, o \in StakeOutcomes :
          place_prediction(u, p, a, o)
    \/ \E p \in StakePoolIds : cancel_pool("operator", p)

SpecStakes == Init /\ [][NextStakes]_vars

\* The edge of the i128 range: the issuer mints until the holders together
\* own more than i128::MAX, and stakes and claims are made with amounts whose
\* sums and products cross the range.
LargeAmounts == {3, 5}

NextOverflow ==
    \/ Deploy
    \/ \E t \in Tokens, cat \in Categories :
          /\ GetOr(instance, "PoolIdCounter", 0) \in PoolIds
          /\ create_pool("alice", MIN_POOL_DURATION, t, 2, 0, 0, 0, cat)
    \/ \E u \in Stakers, t \in Tokens : Mint(u, t, 3)
    \/ \E u \in Stakers, p \in PoolIds, a \in LargeAmounts, o \in Outcomes :
          place_prediction(u, p, a, o)
    \/ \E p \in PoolIds, o \in Outcomes : resolve_pool("operator", p, o)
    \/ \E u \in Stakers, p \in PoolIds : claim_winnings(u, p)
    \/ AdvanceTime(MIN_POOL_DURATION)

SpecOverflow == Init /\ [][NextOverflow]_vars

\* Argument ranges: a pool with two or three outcomes is staked on with
\* amounts below, at and above zero and outcomes below, at and above
\* options_count, and resolved by the operator or the oracle with outcomes on
\* both sides of options_count.
RangeOptionCounts == {2, 3}
RangeAmounts == {-1, 0, 1}
RangeOutcomes == {0, 1, 2, 3}

NextRange ==
    \/ Deploy
    \/ \E n \in RangeOptionCounts, t \in Tokens, cat \in Categories :
          /\ GetOr(instance, "PoolIdCounter", 0) \in PoolIds
          /\ create_pool("alice", MIN_POOL_DURATION, t, n, 0, 0, 0, cat)
    \/ \E p \in PoolIds, a \in RangeAmounts, o \in RangeOutcomes :
          place_prediction("alice", p, a, o)
    \/ \E p \in PoolIds, o \in RangeOutcomes : resolve_pool("operator", p, o)
    \/ \E p \in PoolIds, o \in RangeOutcomes : oracle_resolve("oracle", p, o)
    \/ AdvanceTime(MIN_POOL_DURATION)

SpecRange == Init /\ [][NextRange]_vars

\* Two pools side by side on the same token: both are staked on by the same
\* users, settled in different ways and claimed from.
TwinPoolIds == {0, 1}

NextTwin ==
    \/ Deploy
    \/ \E t \in Tokens, cat \in Categories :
          /\ GetOr(instance, "PoolIdCounter", 0) \in TwinPoolIds
          /\ create_pool("alice", MIN_POOL_DURATION, t, 2, 0, 0, 0, cat)
    \/ \E p \in TwinPoolIds : place_prediction("alice", p, 1, 0)
    \/ \E p \in TwinPoolIds : place_prediction("bob", p, 2, 1)
    \/ \E p \in TwinPoolIds : resolve_pool("operator", p, 0)
    \/ \E p \in TwinPoolIds : oracle_resolve("oracle", p, 1)
    \/ \E p \in TwinPoolIds : cancel_pool("operator", p)
    \/ \E u \in Stakers, p \in TwinPoolIds : claim_winnings(u, p)
    \/ AdvanceTime(MIN_POOL_DURATION)

SpecTwin == Init /\ [][NextTwin]_vars

\* The shared balance: two pools on the same token, created with or without
\* initial liquidity, staked on, settled and claimed from, with no transfer
\* to or from the contract other than those its entry points request.
SolvencyPoolIds == {0, 1}

NextSolvency ==
    \/ Deploy
    \/ \E l \in Liquidities, t \in Tokens, cat \in Categories :
          /\ GetOr(instance, "PoolIdCounter", 0) \in SolvencyPoolIds
          /\ create_pool("alice", MIN_POOL_DURATION, t, 2, 0, 0, l, cat)
    \/ \E p \in SolvencyPoolIds : place_prediction("alice", p, 1, 0)
    \/ \E p \in SolvencyPoolIds : place_prediction("bob", p, 2, 1)
    \/ \E p \in SolvencyPoolIds, o \in Outcomes : resolve_pool("operator", p, o)
    \/ \E p \in SolvencyPoolIds : cancel_pool("operator", p)
    \/ \E u \in Stakers, p \in SolvencyPoolIds : claim_winnings(u, p)
    \/ AdvanceTime(MIN_POOL_DURATION)

SpecSolvency == Init /\ [][NextSolvency]_vars

\* Claims under fairness: one pool is staked on, settled either way and
\* claimed from while the admin pauses and unpauses.  Every call is made by a
\* user; the fairness condition says that a staker who can call
\* claim_winnings on the pool keeps trying until a call goes through.
FairPoolIds == {0}

NextFair ==
    \/ Deploy
    \/ \E l \in Liquidities, t \in Tokens, cat \in Categories :
          /\ GetOr(instance, "PoolIdCounter", 0) \in FairPoolIds
          /\ create_pool("alice", MIN_POOL_DURATION, t, 2, 0, 0, l, cat)
    \/ pause("admin")
    \/ unpause("admin")
    \/ \E p \in FairPoolIds : place_prediction("alice", p, 1, 0)
    \/ \E p \in FairPoolIds : place_prediction("bob", p, 2, 1)
    \/ \E p \in FairPoolIds, o \in Outcomes : resolve_pool("operator", p, o)
    \/ \E p \in FairPoolIds : cancel_pool("operator", p)
    \/ \E u \in Stakers, p \in FairPoolIds : claim_winnings(u, p)
    \/ AdvanceTime(MIN_POOL_DURATION)

SpecFair ==
    /\ Init
    /\ [][NextFair]_vars
    /\ \A u \in Stakers, p \in FairPoolIds : WF_vars(claim_winnings(u, p))

\* ------------------------------------------------------------ observations
\* The keys (user, pool) of f that belong to pool p.
KeysOf(f, p) == {k \in DOMAIN f : k[2] = p}

\* Everything claim_winnings has paid out of pool p.
PaidOut(p) == SumOver(KeysOf(payouts, p), [k \in KeysOf(payouts, p) |-> SeqSum(payouts[k])])

\* The cumulative stake on pool p's declared outcome (per-outcome key).
WinningStake(p) == GetOr(OutcomeStake, <<p, Pool[p].outcome>>, 0)

\* The sum of the per-outcome stakes of pool p.
OutcomeStakeSum(p) ==
    SumOver(0..(Pool[p].options_count - 1),
            [i \in 0..(Pool[p].options_count - 1) |-> GetOr(OutcomeStake, <<p, i>>, 0)])

\* The users whose recorded prediction on p is on the declared outcome.
Winners(p) ==
    {u \in Address : /\ <<u, p>> \in DOMAIN Prediction
                     /\ Prediction[<<u, p>>].outcome = Pool[p].outcome}

AllWinnersClaimed(p) == \A u \in Winners(p) : <<u, p>> \in DOMAIN payouts

\* The sum of the winners' recorded amounts.
WinnersRecorded(p) ==
    SumOver(Winners(p), [u \in Winners(p) |-> Prediction[<<u, p>>].amount])

\* Every winner's share of pool p divides without remainder.
ExactShares(p) ==
    \A u \in Winners(p) :
        (Prediction[<<u, p>>].amount * Pool[p].total_stake) % WinningStake(p) = 0

\* What pools other than p that use p's token have taken in and not paid out.
HeldForOthers(p) ==
    LET others == {q \in DOMAIN Pool : q # p /\ Pool[q].token = Pool[p].token}
    IN  SumOver(others, [q \in others |-> Pool[q].total_stake - PaidOut(q)])

\* What the donor has sent to the contract outside its entry points.
Donated(token) == DonorBalance - balance[token][Donor]

\* This step is a call of claim_winnings(u, p).
ClaimStep(u, p) ==
    /\ last'.op = "claim_winnings"
    /\ last'.caller = u
    /\ last'.pool = p

\* The step moved exactly `amount` of pool p's token from the contract to u.
PaidTo(u, p, amount) ==
    balance' = IF amount = 0 THEN balance
               ELSE Transfer(balance, Pool[p].token, Contract, u, amount)

\* ------------------------------------------------------------ claims
\* C1: for every Resolved pool, the sum of all amounts claim_winnings has paid
\* out of it is at most the pool's total_stake.
C1_PaidOutAtMostTotalStake ==
    \A p \in DOMAIN Pool :
        Pool[p].state = "Resolved" => PaidOut(p) <= Pool[p].total_stake

\* C1 witness: a Resolved pool from which both stakers were paid, with rounding
\* dust left, while the contract holds more of the token than the pool's rest.
C1_Witness ==
    \E p \in DOMAIN Pool :
        /\ Pool[p].state = "Resolved"
        /\ \A u \in Stakers : <<u, p>> \in DOMAIN payouts /\ payouts[<<u, p>>][1] > 0
        /\ PaidOut(p) < Pool[p].total_stake
        /\ balance[Pool[p].token][Contract] > Pool[p].total_stake - PaidOut(p)
\* C2: once claim_winnings has succeeded for a (user, pool), every later
\* claim_winnings of that user on that pool is denied, with AlreadyClaimed
\* whenever the contract is not paused, and leaves every balance and the
\* record of payouts unchanged; no (user, pool) is ever paid twice.
C2_NoDoublePayout ==
    [][/\ \A u \in Address, p \in DOMAIN Pool :
             (ClaimStep(u, p) /\ <<u, p>> \in DOMAIN payouts) =>
                 /\ last'.res = IF is_paused THEN "panic: Contract is paused"
                                ELSE "AlreadyClaimed"
                 /\ balance' = balance
                 /\ payouts' = payouts
       /\ \A k \in DOMAIN payouts' : Len(payouts'[k]) = 1]_vars

\* C2 witness: a user who was paid a positive amount has just claimed again on
\* the unpaused contract and was denied with AlreadyClaimed.
C2_Witness ==
    /\ last.op = "claim_winnings"
    /\ last.res = "AlreadyClaimed"
    /\ ~is_paused
    /\ <<last.caller, last.pool>> \in DOMAIN payouts
    /\ payouts[<<last.caller, last.pool>>][1] > 0
    /\ balance[Pool[last.pool].token][Contract] > 0

\* C3: a pool's state changes only from Active to Resolved or to Canceled; a
\* pool that is Resolved or Canceled keeps its state, its outcome and its
\* resolved and canceled flags in every step.
C3_MonotoneState ==
    [][\A p \in DOMAIN Pool :
          /\ p \in DOMAIN Pool'
          /\ Pool'[p].state # Pool[p].state =>
                /\ Pool[p].state = "Active"
                /\ Pool'[p].state \in {"Resolved", "Canceled"}
          /\ Pool[p].state # "Active" =>
                /\ Pool'[p].state = Pool[p].state
                /\ Pool'[p].outcome = Pool[p].outcome
                /\ Pool'[p].resolved = Pool[p].resolved
                /\ Pool'[p].canceled = Pool[p].canceled]_vars

\* C3 witness: cancel_pool was just refused on a Resolved pool.
C3_Witness ==
    /\ last.op = "cancel_pool"
    /\ last.res = "PoolNotResolved"
    /\ Pool[last.pool].state = "Resolved"
    /\ Pool[last.pool].outcome = 1

\* C4 (as claimed): for every pool, total_stake equals the sum of the
\* cumulative outcome stakes over all outcome indices.
C4_TotalStakeIsOutcomeSum ==
    \A p \in DOMAIN Pool : Pool[p].total_stake = OutcomeStakeSum(p)

\* C5 (as claimed): in a Resolved pool whose winners have all claimed, the sum
\* paid is total_stake minus a dust d with 0 <= d <= number of winners.
C5_DustBoundedByWinners ==
    \A p \in DOMAIN Pool :
        (Pool[p].state = "Resolved" /\ AllWinnersClaimed(p)) =>
            /\ 0 <= Pool[p].total_stake - PaidOut(p)
            /\ Pool[p].total_stake - PaidOut(p) <= Cardinality(Winners(p))

\* C5 (amended): in a Resolved pool whose winners have all claimed, with T the
\* total stake, W the stake on the winning outcome, R the sum of the winners'
\* recorded amounts, n their number and P the sum paid: R <= W; P = 0 when
\* W = 0; otherwise R*T - n*(W-1) <= W*P <= R*T.  When W > 0 and R = W this is
\* P = T - d with 0 <= d <= n, and when moreover every share divides exactly,
\* P = T and the contract holds nothing more for that pool.
C5_DustOfRecordedWinners ==
    \A p \in DOMAIN Pool :
        (Pool[p].state = "Resolved" /\ AllWinnersClaimed(p)) =>
            LET T == Pool[p].total_stake
                W == WinningStake(p)
                R == WinnersRecorded(p)
                n == Cardinality(Winners(p))
                P == PaidOut(p)
            IN  /\ R <= W
                /\ W = 0 => P = 0
                /\ W > 0 => /\ W * P <= R * T
                            /\ R * T - n * (W - 1) <= W * P
                /\ (W > 0 /\ R = W) => (0 <= T - P /\ T - P <= n)
                /\ (W > 0 /\ R = W /\ ExactShares(p)) =>
                      /\ P = T
                      /\ balance[Pool[p].token][Contract] =
                            HeldForOthers(p) + Donated(Pool[p].token)

\* C5 witness: two winners have claimed from a Resolved pool and one unit of
\* dust is left; no stake on the winning outcome was overwritten.
C5_Witness ==
    \E p \in DOMAIN Pool :
        /\ Pool[p].state = "Resolved"
        /\ Cardinality(Winners(p)) = 2
        /\ AllWinnersClaimed(p)
        /\ WinnersRecorded(p) = WinningStake(p)
        /\ Pool[p].total_stake - PaidOut(p) = 1

\* C6 (as claimed): in every reachable state the stored Config.fee_bps is at
\* most 10,000.
C6_StoredFeeAtMostMax ==
    HasConfig => instance["Config"].fee_bps <= MAX_FEE_BPS

\* C7: on an Active pool of the unpaused contract, resolve_pool by an operator
\* and oracle_resolve by an oracle at a time before end_time + resolution_delay
\* are denied with ResolutionDelayNotMet and change no pool; from that time on,
\* the threshold itself included, they succeed for an outcome in range.  Every
\* step that resolves a pool happens at end_time + resolution_delay or later.
C7_ResolutionDelay ==
    [][/\ \A c \in Address, p \in DOMAIN Pool, o \in ResolveOutcomes :
             (/\ \/ resolve_pool(c, p, o) /\ require_role(c, 1)
                 \/ oracle_resolve(c, p, o) /\ require_role(c, 3)
              /\ Pool[p].state = "Active"
              /\ ~is_paused) =>
                 IF now < Pool[p].end_time + instance["Config"].resolution_delay
                 THEN last'.res = "ResolutionDelayNotMet" /\ Pool' = Pool
                 ELSE o < Pool[p].options_count =>
                         /\ last'.res = "ok"
                         /\ Pool'[p].state = "Resolved"
                         /\ Pool'[p].outcome = o
       /\ \A p \in DOMAIN Pool :
             (Pool[p].state = "Active" /\ Pool'[p].state = "Resolved") =>
                 now >= Pool[p].end_time + instance["Config"].resolution_delay]_vars

\* C7 witness: with a delay of 1 configured, resolve_pool has just succeeded at
\* exactly end_time + 1, while another pool whose threshold lies beyond the
\* largest timestamp is still Active.
C7_Witness ==
    /\ last.op = "resolve_pool"
    /\ last.res = "ok"
    /\ instance["Config"].resolution_delay = 1
    /\ now = Pool[last.pool].end_time + 1
    /\ \E q \in DOMAIN Pool :
          /\ Pool[q].state = "Active"
          /\ Pool[q].end_time + 1 > U64_MAX

\* C8: on a Resolved pool the first claim of a user whose recorded outcome is
\* the winning one returns, and moves from the contract to the user, exactly
\* floor(amount * total_stake / winning stake); when that product is out of
\* range the call aborts and moves nothing.
C8_WinnerPayout ==
    [][\A u \in Address, p \in DOMAIN Pool :
          (/\ ClaimStep(u, p)
           /\ Pool[p].state = "Resolved"
           /\ <<u, p>> \notin DOMAIN payouts
           /\ <<u, p>> \in DOMAIN Prediction
           /\ Prediction[<<u, p>>].outcome = Pool[p].outcome) =>
              LET stake == Prediction[<<u, p>>].amount
                  T == Pool[p].total_stake
                  W == WinningStake(p)
              IN  IF stake * T > I128_MAX
                  THEN /\ last'.res = "panic: overflow in winnings calculation"
                       /\ balance' = balance
                  ELSE /\ last'.res = "ok"
                       /\ last'.ret = (stake * T) \div W
                       /\ PaidTo(u, p, (stake * T) \div W)]_vars

\* C8 witness: a winner who staked 1 of the 2 on the winning outcome of a pool
\* holding 3 was just paid 1, the floor of 3/2.
C8_Witness ==
    /\ last.op = "claim_winnings"
    /\ last.res = "ok"
    /\ last.ret = 1
    /\ Pool[last.pool].state = "Resolved"
    /\ Pool[last.pool].total_stake = 3
    /\ WinningStake(last.pool) = 2
    /\ Prediction[<<last.caller, last.pool>>].amount = 1
    /\ Prediction[<<last.caller, last.pool>>].outcome = Pool[last.pool].outcome

\* C9 (as claimed): on a Canceled pool, what the first claim of a user who
\* staked on it returned is exactly what that user transferred into the pool.
C9_RefundIsWholeDeposit ==
    \A k \in DOMAIN payouts :
        (Pool[k[2]].state = "Canceled" /\ k \in DOMAIN deposited) =>
            payouts[k][1] = deposited[k]

\* C10: on a Resolved pool the first claim of a user whose recorded outcome is
\* not the winning one, and on a Resolved or Canceled pool the first claim of
\* a user with no prediction, succeed, return 0 and move no tokens.
C10_ZeroPayout ==
    [][\A u \in Address, p \in DOMAIN Pool :
          (/\ ClaimStep(u, p)
           /\ Pool[p].state # "Active"
           /\ <<u, p>> \notin DOMAIN payouts
           /\ \/ <<u, p>> \notin DOMAIN Prediction
              \/ /\ Pool[p].state = "Resolved"
                 /\ Prediction[<<u, p>>].outcome # Pool[p].outcome) =>
              /\ last'.res = "ok"
              /\ last'.ret = 0
              /\ balance' = balance
              /\ payouts'[<<u, p>>] = <<0>>]_vars

\* C10 witness: a loser has just claimed 0 from a Resolved pool on whose
\* winning outcome there is stake, after a user with no prediction claimed 0.
C10_Witness ==
    /\ last.op = "claim_winnings"
    /\ last.res = "ok"
    /\ last.ret = 0
    /\ Pool[last.pool].state = "Resolved"
    /\ WinningStake(last.pool) > 0
    /\ <<last.caller, last.pool>> \in DOMAIN Prediction
    /\ \E u \in Stakers :
          /\ <<u, last.pool>> \notin DOMAIN Prediction
          /\ <<u, last.pool>> \in DOMAIN payouts


\* C11: claim_winnings on an Active pool of the unpaused contract is refused
\* with PoolNotResolved, moves no tokens and writes no receipt; an Active pool
\* never holds a receipt, so the claim remains open once the pool is settled.
C11_ClaimOnActivePool ==
    [][/\ \A u \in Address, p \in DOMAIN Pool :
             (ClaimStep(u, p) /\ Pool[p].state = "Active" /\ ~is_paused) =>
                 /\ last'.res = "PoolNotResolved"
                 /\ balance' = balance
                 /\ HasClaimed' = HasClaimed
                 /\ payouts' = payouts
       /\ \A k \in DOMAIN HasClaimed' : Pool'[k[2]].state # "Active"]_vars

\* C11 witness: a user with a stake on an Active pool whose end time has
\* passed has just been refused with PoolNotResolved.
C11_Witness ==
    /\ last.op = "claim_winnings"
    /\ last.res = "PoolNotResolved"
    /\ Pool[last.pool].state = "Active"
    /\ <<last.caller, last.pool>> \in DOMAIN Prediction
    /\ <<last.caller, last.pool>> \notin DOMAIN HasClaimed
    /\ now >= Pool[last.pool].end_time


\* C12: place_prediction on a pool that is Resolved or Canceled, or at a
\* ledger time >= end_time, fails and changes neither storage nor balances;
\* the total_stake and the outcome stakes of a pool that is no longer Active
\* are the same after every step.
C12_StakingClosed ==
    [][/\ \A p \in DOMAIN Pool :
             (/\ last'.op = "place_prediction"
              /\ last'.pool = p
              /\ Pool[p].state # "Active" \/ now >= Pool[p].end_time) =>
                 /\ last'.res \in {"panic: Contract is paused",
                                   "panic: Pool already resolved",
                                   "panic: Cannot place prediction on canceled pool",
                                   "panic: Pool has ended"}
                 /\ UNCHANGED <<storage, balance, deposited>>
       /\ \A p \in DOMAIN Pool :
             Pool[p].state # "Active" =>
                 /\ Pool'[p].total_stake = Pool[p].total_stake
                 /\ GetOr(OutcomeStakes', p, <<>>) = GetOr(OutcomeStakes, p, <<>>)
                 /\ \A i \in 0..(Pool[p].options_count - 1) :
                       GetOr(OutcomeStake', <<p, i>>, 0) = GetOr(OutcomeStake, <<p, i>>, 0)]_vars

\* C12 witness: a stake offered exactly at end_time on an Active pool that
\* already holds stakes has just been refused.
C12_Witness ==
    /\ last.op = "place_prediction"
    /\ last.res = "panic: Pool has ended"
    /\ Pool[last.pool].state = "Active"
    /\ now = Pool[last.pool].end_time
    /\ OutcomeStakeSum(last.pool) > 0
    /\ balance[Pool[last.pool].token][last.caller] > 0


\* C13: resolve_pool and oracle_resolve on a pool that is Resolved or
\* Canceled, and cancel_pool on a pool that is Resolved (PoolNotResolved) or
\* Canceled, are refused and leave every pool record unchanged.
C13_SettledPoolRefusesSettlement ==
    [][\A p \in DOMAIN Pool :
          (/\ last'.op \in {"resolve_pool", "oracle_resolve", "cancel_pool"}
           /\ last'.pool = p
           /\ Pool[p].state # "Active"
           /\ ~is_paused
           /\ require_role(last'.caller, IF last'.op = "oracle_resolve" THEN 3 ELSE 1)) =>
              /\ Pool' = Pool
              /\ last'.res =
                    IF last'.op = "cancel_pool"
                    THEN IF Pool[p].state = "Resolved" THEN "PoolNotResolved"
                         ELSE "panic: Pool already canceled"
                    ELSE IF Pool[p].state = "Resolved" THEN "panic: Pool already resolved"
                         ELSE "panic: Cannot resolve a canceled pool"]_vars

\* C13 witness: resolve_pool has just been refused on a Canceled pool whose
\* resolution time has come.
C13_Witness ==
    /\ last.op = "resolve_pool"
    /\ last.res = "panic: Cannot resolve a canceled pool"
    /\ Pool[last.pool].state = "Canceled"
    /\ Pool[last.pool].canceled
    /\ ~Pool[last.pool].resolved
    /\ now >= Pool[last.pool].end_time + instance["Config"].resolution_delay


\* The role each role-gated entry point asks for.
RoleOf(op) ==
    IF op \in {"resolve_pool", "cancel_pool"} THEN 1
    ELSE IF op = "oracle_resolve" THEN 3
    ELSE 0

GatedOps ==
    {"resolve_pool", "cancel_pool", "oracle_resolve", "pause", "unpause",
     "set_fee_bps", "set_treasury", "set_resolution_delay",
     "add_token_to_whitelist", "remove_token_from_whitelist"}

PauseGatedOps ==
    {"create_pool", "place_prediction", "resolve_pool", "oracle_resolve",
     "cancel_pool", "claim_winnings", "set_fee_bps", "set_treasury",
     "set_resolution_delay", "add_token_to_whitelist", "remove_token_from_whitelist"}

\* C15: while the pause flag is set, a call of create_pool, place_prediction,
\* resolve_pool, oracle_resolve, cancel_pool, claim_winnings, set_fee_bps,
\* set_treasury, set_resolution_delay, add_token_to_whitelist or
\* remove_token_from_whitelist fails with the paused panic, whatever its caller
\* and arguments, and changes neither storage nor balances.
C15_PauseGate ==
    [][(GetOr(instance, "Paused", FALSE) /\ last'.op \in PauseGatedOps) =>
          /\ last'.res = "panic: Contract is paused"
          /\ UNCHANGED <<storage, balance, payouts, deposited>>]_vars

\* C15 witness: on the paused contract a caller without the operator role has
\* just called resolve_pool for a pool that does not exist and met the paused
\* panic, not the authorization or the lookup failure.
C15_Witness ==
    /\ GetOr(instance, "Paused", FALSE)
    /\ last.op = "resolve_pool"
    /\ last.caller = "alice"
    /\ last.pool \notin DOMAIN Pool
    /\ last.res = "panic: Contract is paused"
    /\ \E q \in DOMAIN Pool : Pool[q].state = "Active" /\ Pool[q].total_stake > 0


\* C16: a create_pool call succeeds only if its token is on the allow-list,
\* end_time >= now + 3600, 2 <= options_count <= 100 and
\* 0 <= initial_liquidity <= MAX_INITIAL_LIQUIDITY, and it then stores an Active
\* pool with total_stake = initial_liquidity; with a token off the allow-list it
\* fails with TokenNotWhitelisted; a failed call changes neither storage nor
\* balances.  Every stored pool satisfies the bounds on options_count and
\* initial_liquidity and ends at least 3600 after the earliest ledger time.
C16_CreatePoolValidation ==
    [][/\ \A c \in Creators, e \in CreateEndTimes, t \in CreateTokens,
            n \in OptionCounts, l \in CreateLiquidities, cat \in Categories :
             create_pool(c, e, t, n, 0, 0, l, cat) =>
                 /\ last'.res = "ok" =>
                       /\ GetOr(TokenWhitelist, t, FALSE)
                       /\ e >= now + MIN_POOL_DURATION
                       /\ 2 <= n /\ n <= MAX_OPTIONS_COUNT
                       /\ 0 <= l /\ l <= MAX_INITIAL_LIQUIDITY
                       /\ last'.pool \notin DOMAIN Pool
                       /\ DOMAIN Pool' = DOMAIN Pool \cup {last'.pool}
                       /\ Pool'[last'.pool].state = "Active"
                       /\ ~Pool'[last'.pool].resolved /\ ~Pool'[last'.pool].canceled
                       /\ Pool'[last'.pool].total_stake = l
                       /\ Pool'[last'.pool].initial_liquidity = l
                       /\ Pool'[last'.pool].options_count = n
                       /\ Pool'[last'.pool].end_time = e
                       /\ Pool'[last'.pool].token = t
                 /\ ~GetOr(TokenWhitelist, t, FALSE) => last'.res = "TokenNotWhitelisted"
                 /\ last'.res # "ok" => UNCHANGED <<storage, balance>>
       /\ \A p \in DOMAIN Pool' :
             /\ 2 <= Pool'[p].options_count
             /\ Pool'[p].options_count <= MAX_OPTIONS_COUNT
             /\ 0 <= Pool'[p].initial_liquidity
             /\ Pool'[p].initial_liquidity <= MAX_INITIAL_LIQUIDITY
             /\ Pool'[p].end_time >= MIN_POOL_DURATION]_vars

\* C16 witness: a pool with the largest options_count and the largest initial
\* liquidity has just been created at ledger time 1 with the nearest end_time
\* create_pool accepts then.
C16_Witness ==
    /\ last.op = "create_pool"
    /\ last.res = "ok"
    /\ now = 1
    /\ Pool[last.pool].end_time = now + MIN_POOL_DURATION
    /\ Pool[last.pool].options_count = MAX_OPTIONS_COUNT
    /\ Pool[last.pool].total_stake = MAX_INITIAL_LIQUIDITY
    /\ balance[Pool[last.pool].token][Contract] >= MAX_INITIAL_LIQUIDITY


\* C17: the stored pools are exactly the ids 0 .. PoolIdCounter - 1; a
\* successful create_pool returns the number of pools created before it, adds
\* that id, leaves every existing pool as it was and raises the counter by
\* one; a failed create_pool, and every other call, leaves the counter and the
\* set of ids unchanged.
C17_SequentialPoolIds ==
    [][/\ DOMAIN Pool = 0..(GetOr(instance, "PoolIdCounter", 0) - 1)
       /\ DOMAIN Pool' = 0..(GetOr(instance', "PoolIdCounter", 0) - 1)
       /\ IF last'.op = "create_pool" /\ last'.res = "ok"
          THEN /\ last'.ret = Cardinality(DOMAIN Pool)
               /\ last'.ret \notin DOMAIN Pool
               /\ DOMAIN Pool' = DOMAIN Pool \cup {last'.ret}
               /\ \A p \in DOMAIN Pool : Pool'[p] = Pool[p]
               /\ instance'["PoolIdCounter"] = last'.ret + 1
          ELSE /\ DOMAIN Pool' = DOMAIN Pool
               /\ GetOr(instance', "PoolIdCounter", 0) = GetOr(instance, "PoolIdCounter", 0)]_vars

\* C17 witness: the third pool has just been created with id 2 while pool 0
\* is Canceled and pool 1 holds a stake.
C17_Witness ==
    /\ last.op = "create_pool"
    /\ last.res = "ok"
    /\ last.ret = 2
    /\ DOMAIN Pool = {0, 1, 2}
    /\ Pool[0].state = "Canceled"
    /\ Pool[1].total_stake > Pool[1].initial_liquidity
    /\ instance["PoolIdCounter"] = 3


\* C18: on an initialized contract a call of init, with any arguments,
\* succeeds and leaves the whole storage (Config, PoolIdCounter, the pause
\* flag, every pool and stake) and every balance unchanged.
C18_InitIdempotent ==
    [][\A ac \in AccessControls, tr \in Treasuries \cup {"vault"}, f \in {0, 1},
         d \in Delays :
          (HasConfig /\ init(ac, tr, f, d)) =>
              /\ last'.res = "ok"
              /\ UNCHANGED <<storage, balance, now>>]_vars

\* C18 witness: init has just been called on a contract whose fee was changed
\* after its first initialization and which holds two pools, one with a stake.
C18_Witness ==
    /\ last.op = "init"
    /\ HasConfig
    /\ instance["Config"].fee_bps = 1
    /\ instance["Config"].treasury = "vault"
    /\ instance["Config"].resolution_delay = 0
    /\ instance["PoolIdCounter"] = 2
    /\ DOMAIN Pool = {0, 1}
    /\ Pool[1].total_stake > Pool[1].initial_liquidity


\* C19 (as claimed): mark_pool_ready on a stored pool succeeds exactly when the
\* pool is Active and now >= end_time + resolution_delay, and in every other
\* case fails with ResolutionDelayNotMet.
C19_MarkReadyOrDelayNotMet ==
    [][\A p \in DOMAIN Pool :
          (last'.op = "mark_pool_ready" /\ last'.pool = p) =>
              last'.res =
                  IF /\ Pool[p].state = "Active"
                     /\ now >= Pool[p].end_time + instance["Config"].resolution_delay
                  THEN "ok"
                  ELSE "ResolutionDelayNotMet"]_vars

\* C19 (amended): mark_pool_ready succeeds exactly when the pool is Active and
\* now >= end_time + resolution_delay; on an Active pool before that time it
\* fails with ResolutionDelayNotMet, on a Resolved or Canceled pool it fails
\* with InvalidPoolState whatever the time, and for an id without a pool it
\* panics.
C19_MarkReadyResult ==
    [][\A p \in TimePoolIds :
          (last'.op = "mark_pool_ready" /\ last'.pool = p) =>
              last'.res =
                  IF p \notin DOMAIN Pool THEN "panic: Pool not found"
                  ELSE IF Pool[p].state # "Active" THEN "InvalidPoolState"
                  ELSE IF now >= Pool[p].end_time + instance["Config"].resolution_delay
                  THEN "ok"
                  ELSE "ResolutionDelayNotMet"]_vars

\* C19 witness: mark_pool_ready has just failed with InvalidPoolState on a
\* Resolved pool whose resolution delay of 1 has elapsed.
C19_Witness ==
    /\ last.op = "mark_pool_ready"
    /\ last.res = "InvalidPoolState"
    /\ last.pool \in DOMAIN Pool
    /\ Pool[last.pool].state = "Resolved"
    /\ instance["Config"].resolution_delay = 1
    /\ now >= Pool[last.pool].end_time + 1


\* C20: a call of mark_pool_ready, successful or not, on the paused or the
\* unpaused contract, leaves the whole storage (pools, stakes, predictions,
\* receipts, indices, allow-list, configuration) and every balance unchanged.
C20_MarkReadyReadOnly ==
    [][last'.op = "mark_pool_ready" => UNCHANGED <<storage, balance, now>>]_vars

\* C20 witness: mark_pool_ready has just succeeded on the paused contract for
\* an Active pool that holds a stake.
C20_Witness ==
    /\ last.op = "mark_pool_ready"
    /\ last.res = "ok"
    /\ GetOr(instance, "Paused", FALSE)
    /\ Pool[last.pool].state = "Active"
    /\ ~Pool[last.pool].resolved
    /\ Pool[last.pool].total_stake > 0


\* C21: get_user_predictions(user, offset, limit) returns the empty vector
\* when offset >= the user's entry count or limit = 0; otherwise it returns
\* min(offset + limit, count) - offset entries, the j-th being the entry at
\* index position offset + j - 1 with the pool's and the prediction's current
\* fields.  Every successful place_prediction appends its pool id at position
\* count and leaves the earlier positions as they were.
C21_UserPredictionsPage ==
    [][/\ \A u \in Stakers, off \in Offsets, lim \in Limits :
             get_user_predictions(u, off, lim) =>
                 LET count == GetOr(UserPredictionCount, u, 0)
                     ret == last'.ret
                 IN  IF off >= count \/ lim = 0 THEN ret = <<>>
                     ELSE /\ Len(ret) = Min(off + lim, count) - off
                          /\ Len(ret) > 0
                          /\ \A j \in 1..Len(ret) :
                                LET pid == UserPredictionIndex[<<u, off + j - 1>>] IN
                                /\ ret[j].pool_id = pid
                                /\ ret[j].amount = Prediction[<<u, pid>>].amount
                                /\ ret[j].user_outcome = Prediction[<<u, pid>>].outcome
                                /\ ret[j].pool_end_time = Pool[pid].end_time
                                /\ ret[j].pool_state = Pool[pid].state
                                /\ ret[j].pool_outcome = Pool[pid].outcome
       /\ (last'.op = "place_prediction" /\ last'.res = "ok") =>
             LET u == last'.caller
                 count == GetOr(UserPredictionCount, u, 0)
             IN  /\ UserPredictionCount'[u] = count + 1
                 /\ UserPredictionIndex'[<<u, count>>] = last'.pool
                 /\ \A k \in DOMAIN UserPredictionIndex :
                       UserPredictionIndex'[k] = UserPredictionIndex[k]]_vars

\* C21 witness: the user staked on pool 0, then on pool 1, then again on a
\* pool, and a query from offset 1 with the largest limit has just returned
\* the second and the third entry, in that order.
C21_Witness ==
    /\ last.op = "get_user_predictions"
    /\ GetOr(UserPredictionCount, last.caller, 0) = 3
    /\ UserPredictionIndex[<<last.caller, 0>>] = 0
    /\ UserPredictionIndex[<<last.caller, 1>>] = 1
    /\ Len(last.ret) = 2
    /\ last.ret[1].pool_id = 1
    /\ last.ret[2].pool_id = UserPredictionIndex[<<last.caller, 2>>]
    /\ last.ret[2].pool_state = "Resolved"


\* The positions of a category's index that hold the pool id.
CategoryPositions(category, pool_id) ==
    {i \in 0..(GetOr(CategoryPoolCount, category, 0) - 1) :
        CategoryPoolIndex[<<category, i>>] = pool_id}

\* C22: get_pools_by_category(category, offset, limit) returns the empty
\* vector when offset >= the category's pool count or limit = 0; otherwise it
\* returns min(limit, count - offset) ids of pools of that category, the j-th
\* being the (offset + j)-th most recently created one.  Every created pool
\* appears exactly once in its own category's index and in no other, and a
\* later position of an index holds a later created pool.
C22_PoolsByCategoryPage ==
    [][/\ \A cat \in QueryCategories, off \in Offsets, lim \in Limits :
             get_pools_by_category(cat, off, lim) =>
                 LET count == GetOr(CategoryPoolCount, cat, 0)
                     ret == last'.ret
                 IN  IF off >= count \/ lim = 0 THEN ret = <<>>
                     ELSE /\ Len(ret) = Min(lim, count - off)
                          /\ Len(ret) > 0
                          /\ \A j \in 1..Len(ret) :
                                /\ ret[j] = CategoryPoolIndex[<<cat, count - off - j>>]
                                /\ Pool[ret[j]].category = cat
                          /\ \A j, k \in 1..Len(ret) : j < k => ret[j] > ret[k]
       /\ \A p \in DOMAIN Pool', cat \in QueryCategories :
             Cardinality(CategoryPositions(cat, p)') =
                 IF Pool'[p].category = cat THEN 1 ELSE 0
       /\ \A cat \in QueryCategories :
             \A i, k \in 0..(GetOr(CategoryPoolCount', cat, 0) - 1) :
                 i < k => CategoryPoolIndex'[<<cat, i>>] < CategoryPoolIndex'[<<cat, k>>]]_vars

\* C22 witness: three pools exist, two of them in one category, and a query
\* of that category has just returned both, the later created one first.
C22_Witness ==
    /\ last.op = "get_pools_by_category"
    /\ Cardinality(DOMAIN Pool) = 3
    /\ GetOr(CategoryPoolCount, last.caller, 0) = 2
    /\ Len(last.ret) = 2
    /\ last.ret[1] > last.ret[2]
    /\ \E p \in DOMAIN Pool : Pool[p].category # last.caller


\* C23: within claim_winnings the receipt is written before any payout or
\* refund transfer: whenever a claim has asked the token contract for a
\* transfer and not yet returned, its HasClaimed receipt is present; tokens
\* leave the contract only in a step that starts with the receipt present;
\* and a claim_winnings for the same user and pool made from inside the
\* transfer is denied with AlreadyClaimed and changes nothing.
C23_ReceiptBeforeTransfer ==
    [][/\ InFlight' => <<last'.caller, last'.pool>> \in DOMAIN HasClaimed'
       /\ (last'.op = "claim_winnings" /\ balance' # balance) =>
             /\ InFlight
             /\ <<last'.caller, last'.pool>> \in DOMAIN HasClaimed
       /\ claim_winnings_reentered =>
             /\ last'.reentered[Len(last'.reentered)] = "AlreadyClaimed"
             /\ UNCHANGED <<storage, balance, payouts>>]_vars

\* C23 witness: a winner's claim has asked for its transfer, claim_winnings
\* was called again from inside the transfer and denied, and nothing has been
\* paid to the user so far.
C23_Witness ==
    /\ last.op = "claim_winnings"
    /\ InFlight
    /\ last.reentered = <<"AlreadyClaimed">>
    /\ Pool[last.pool].state = "Resolved"
    /\ last.ret > 0
    /\ <<last.caller, last.pool>> \notin DOMAIN payouts


DenialSignal(call, timestamp) ==
    IF call.res \notin {"Unauthorized", "panic: Unauthorized: missing required role"}
    THEN <<>>
    ELSE IF call.op \in {"pause", "unpause", "set_fee_bps", "set_treasury",
                         "set_resolution_delay", "add_token_to_whitelist",
                         "remove_token_from_whitelist"}
    THEN [topic |-> "unauthorized_admin_op", caller |-> call.caller,
          operation |-> call.op, timestamp |-> timestamp]
    ELSE IF call.op \in {"resolve_pool", "oracle_resolve"}
    THEN [topic |-> "unauthorized_resolution", caller |-> call.caller,
          pool_id |-> call.pool, timestamp |-> timestamp]
    ELSE <<>>

\* C25: every role-gated entry point, when refused for a missing role, has
\* published a denial signal that carries the caller and the current time.
C25_DenialSignal ==
    (/\ last.op \in GatedOps
     /\ last.res \in {"Unauthorized", "panic: Unauthorized: missing required role"}) =>
        /\ DenialSignal(last, now) # <<>>
        /\ DenialSignal(last, now).caller = last.caller
        /\ DenialSignal(last, now).timestamp = now


\* C26: the two stored representations of the outcome stakes agree: for
\* every pool whose batched vector OutcomeStakes(pool) is present, the vector
\* has exactly options_count elements and its i-th element equals
\* OutcomeStake(pool, i), read as 0 when that key is absent; and no
\* per-outcome key exists without the batched vector or beyond options_count.
C26_StakeRepresentationsAgree ==
    /\ \A p \in DOMAIN OutcomeStakes :
          /\ p \in DOMAIN Pool
          /\ Len(OutcomeStakes[p]) = Pool[p].options_count
          /\ \A i \in 0..(Pool[p].options_count - 1) :
                OutcomeStakes[p][i + 1] = GetOr(OutcomeStake, <<p, i>>, 0)
    /\ \A k \in DOMAIN OutcomeStake :
          /\ k[1] \in DOMAIN OutcomeStakes
          /\ k[2] < Pool[k[1]].options_count

\* C26 witness: a pool with three outcomes has stakes on two of them, one of
\* them staked on more than once, and none on the third.
C26_Witness ==
    \E p \in DOMAIN OutcomeStakes :
        /\ Pool[p].options_count = 3
        /\ OutcomeStakes[p][1] = 3
        /\ OutcomeStakes[p][3] = 2
        /\ <<p, 1>> \notin DOMAIN OutcomeStake


C28_NoWinners ==
    [][/\ (/\ last'.op = "resolve_pool"
           /\ last'.caller = "operator"
           /\ last'.pool \in DOMAIN Pool
           /\ Pool[last'.pool].state = "Active"
           /\ now >= Pool[last'.pool].end_time + instance["Config"].resolution_delay) =>
             /\ last'.res = "ok"
             /\ Pool'[last'.pool].state = "Resolved"
       /\ \A p \in DOMAIN Pool' :
             (Pool'[p].state = "Resolved" /\ WinningStake(p)' = 0) =>
                 /\ balance'[Pool'[p].token][Contract] >= Pool'[p].total_stake
                 /\ balance'[Pool'[p].token][Contract] >=
                        balance[Pool'[p].token][Contract]
                 /\ (last'.op = "claim_winnings" /\ last'.pool = p) =>
                       /\ last'.res \in {"ok", "AlreadyClaimed"}
                       /\ last'.ret = 0
                       /\ balance' = balance]_vars

\* C28 witness: a pool with stakes was resolved to an outcome nobody staked
\* on, and a staker's claim has just returned 0 while the contract holds the
\* pool's total_stake.
C28_Witness ==
    /\ last.op = "claim_winnings"
    /\ last.res = "ok"
    /\ last.ret = 0
    /\ last.pool \in DOMAIN Pool
    /\ Pool[last.pool].state = "Resolved"
    /\ WinningStake(last.pool) = 0
    /\ Pool[last.pool].total_stake > 0
    /\ <<last.caller, last.pool>> \in DOMAIN Prediction
    /\ balance[Pool[last.pool].token][Contract] = Pool[last.pool].total_stake


\* C29: the assertion winnings <= total_stake of claim_winnings never fails:
\* no claim aborts with "Winnings exceed total stake", because on every
\* resolved pool each prediction on the declared outcome has an amount of at
\* most that outcome's cumulative stake, so its share
\* floor(amount * total_stake / winning_stake) is at most total_stake.
C29_WinningsWithinTotalStake ==
    /\ last.res # "panic: Winnings exceed total stake"
    /\ \A p \in DOMAIN Pool :
          Pool[p].state = "Resolved" =>
              \A u \in Winners(p) :
                  /\ Prediction[<<u, p>>].amount <= WinningStake(p)
                  /\ (Prediction[<<u, p>>].amount * Pool[p].total_stake)
                         \div WinningStake(p) <= Pool[p].total_stake

\* C29 witness: the only winner of a pool that also holds a loser's stake has
\* claimed and was paid the pool's whole total_stake, the largest payout the
\* assertion lets through.
C29_Witness ==
    /\ last.op = "claim_winnings"
    /\ last.res = "ok"
    /\ last.pool \in DOMAIN Pool
    /\ Pool[last.pool].state = "Resolved"
    /\ <<last.caller, last.pool>> \in DOMAIN Prediction
    /\ last.ret = Pool[last.pool].total_stake
    /\ last.ret > Prediction[<<last.caller, last.pool>>].amount
    /\ WinningStake(last.pool) = Prediction[<<last.caller, last.pool>>].amount


\* C30: the stake and payout arithmetic never wraps.  A place_prediction
\* whose total_stake + amount exceeds the i128 range, and a claim_winnings of
\* a winner whose amount * total_stake exceeds it, abort and leave storage and
\* balances as they were; every stored total_stake and outcome stake and
\* every payout made lies within 0 .. i128::MAX.
C30_NoWrap ==
    [][/\ \A u \in Stakers, p \in PoolIds, a \in LargeAmounts, o \in Outcomes :
             (/\ place_prediction(u, p, a, o)
              /\ p \in DOMAIN Pool
              /\ Pool[p].total_stake + a > I128_MAX) =>
                 /\ last'.res # "ok"
                 /\ UNCHANGED <<storage, balance>>
       /\ \A u \in Stakers, p \in PoolIds :
             (/\ claim_winnings(u, p)
              /\ p \in DOMAIN Pool
              /\ Pool[p].state = "Resolved"
              /\ u \in Winners(p)
              /\ Prediction[<<u, p>>].amount * Pool[p].total_stake > I128_MAX) =>
                 /\ last'.res # "ok"
                 /\ UNCHANGED <<storage, balance>>
       /\ \A p \in DOMAIN Pool' : Pool'[p].total_stake \in 0..I128_MAX
       /\ \A k \in DOMAIN OutcomeStake' : OutcomeStake'[k] \in 0..I128_MAX
       /\ (last'.op = "claim_winnings" /\ last'.res = "ok") =>
             last'.ret \in 0..I128_MAX]_vars

\* C30 witness: a user who holds enough tokens has just been refused a stake
\* because it would have taken the pool's total_stake beyond the i128 range;
\* the pool and the user's balance are as before.
C30_Witness ==
    /\ last.op = "place_prediction"
    /\ last.res = "panic: overflow"
    /\ Pool[last.pool].total_stake >= I128_MAX - 4
    /\ balance[Pool[last.pool].token][last.caller] >= 5


\* C31: every stored Prediction has amount > 0 and an outcome below its
\* pool's options_count, and every Resolved pool has an outcome below its
\* options_count; a place_prediction with amount <= 0 or with an outcome at or
\* above options_count, and a resolve_pool with such an outcome, end with a
\* failure, and a call that ends with a failure (oracle_resolve included)
\* changes neither storage nor balances.
C31_AmountsAndOutcomesInRange ==
    [][/\ \A k \in DOMAIN Prediction' :
             /\ Prediction'[k].amount > 0
             /\ Prediction'[k].outcome < Pool'[k[2]].options_count
       /\ \A p \in DOMAIN Pool' :
             Pool'[p].state = "Resolved" => Pool'[p].outcome < Pool'[p].options_count
       /\ \A p \in PoolIds, a \in RangeAmounts, o \in RangeOutcomes :
             (/\ place_prediction("alice", p, a, o)
              /\ a <= 0 \/ (p \in DOMAIN Pool /\ o >= Pool[p].options_count)) =>
                 last'.res # "ok"
       /\ \A p \in PoolIds, o \in RangeOutcomes :
             (/\ resolve_pool("operator", p, o)
              /\ p \in DOMAIN Pool
              /\ o >= Pool[p].options_count) =>
                 last'.res # "ok"
       /\ last'.res # "ok" => UNCHANGED <<storage, balance>>]_vars

\* C31 witness: the oracle has just been refused a resolution to outcome 2 of a
\* two-outcome pool that holds a stake and whose resolution time has come.
C31_Witness ==
    /\ last.op = "oracle_resolve"
    /\ last.res = "panic: outcome exceeds options_count or invalid state transition"
    /\ Pool[last.pool].options_count = 2
    /\ Pool[last.pool].state = "Active"
    /\ Pool[last.pool].total_stake > 0


\* C32: the claim receipt is write-once: a receipt that exists stays, with
\* the value true, through every operation; a receipt is only ever written
\* by a claim_winnings that returns Ok, on a pool that is Resolved or
\* Canceled; and no receipt exists for an Active pool.
C32_ReceiptWriteOnce ==
    [][/\ \A k \in DOMAIN HasClaimed :
             k \in DOMAIN HasClaimed' /\ HasClaimed'[k] = TRUE
       /\ \A k \in DOMAIN HasClaimed' :
             /\ HasClaimed'[k] = TRUE
             /\ k[2] \in DOMAIN Pool'
             /\ Pool'[k[2]].state \in {"Resolved", "Canceled"}
             /\ k \notin DOMAIN HasClaimed =>
                   /\ last'.op = "claim_winnings"
                   /\ last'.res = "ok"
                   /\ k = <<last'.caller, last'.pool>>
                   /\ Pool[k[2]].state \in {"Resolved", "Canceled"}]_vars

\* C32 witness: a user holds a receipt on a cancelled pool, the user's further
\* claim has just been refused and the receipt is still there, while another
\* user has none.
C32_Witness ==
    /\ last.op = "claim_winnings"
    /\ last.res = "AlreadyClaimed"
    /\ <<last.caller, last.pool>> \in DOMAIN HasClaimed
    /\ Pool[last.pool].state = "Canceled"
    /\ \E u \in Stakers : <<u, last.pool>> \notin DOMAIN HasClaimed


\* What a resolution attempt on pool p with outcome o by a caller holding the
\* entry point's role ends with, and the pool record it leaves.
ResolutionResult(p, o) ==
    IF is_paused THEN "panic: Contract is paused"
    ELSE IF ~HasConfig THEN "panic: Config not set"
    ELSE IF p \notin DOMAIN Pool THEN "panic: Pool not found"
    ELSE IF Pool[p].resolved THEN "panic: Pool already resolved"
    ELSE IF Pool[p].canceled THEN "panic: Cannot resolve a canceled pool"
    ELSE IF Pool[p].state # "Active" THEN "InvalidPoolState"
    ELSE IF now < Min(Pool[p].end_time + instance["Config"].resolution_delay, U64_MAX)
    THEN "ResolutionDelayNotMet"
    ELSE IF o >= Pool[p].options_count
    THEN "panic: outcome exceeds options_count or invalid state transition"
    ELSE "ok"

ResolutionPool(p, o) ==
    IF ResolutionResult(p, o) # "ok" THEN Pool
    ELSE [Pool EXCEPT ![p] = [@ EXCEPT !.state = "Resolved", !.resolved = TRUE,
                                       !.outcome = o]]

\* C33: resolve_pool called by the operator and oracle_resolve called by the
\* oracle, from the same state with the same pool id and outcome, end with the
\* same result and leave the same pool records, and neither changes anything
\* else in storage or any balance.
C33_ResolveEntryPointsAgree ==
    [][\A p \in TimePoolIds, o \in ResolveOutcomes :
          /\ resolve_pool("operator", p, o) =>
                /\ last'.res = ResolutionResult(p, o)
                /\ Pool' = ResolutionPool(p, o)
                /\ UNCHANGED <<instance, Prediction, HasClaimed, OutcomeStake,
                               OutcomeStakes, TokenWhitelist, balance>>
          /\ oracle_resolve("oracle", p, o) =>
                /\ last'.res = ResolutionResult(p, o)
                /\ Pool' = ResolutionPool(p, o)
                /\ UNCHANGED <<instance, Prediction, HasClaimed, OutcomeStake,
                               OutcomeStakes, TokenWhitelist, balance>>]_vars

\* C33 witness: two pools of the same shape have been resolved to the same
\* outcome, the second just now by the oracle through oracle_resolve after a
\* delay that was set above zero, and their records are equal.
C33_Witness ==
    /\ last.op = "oracle_resolve"
    /\ last.res = "ok"
    /\ last.pool = 1
    /\ DOMAIN Pool = {0, 1}
    /\ Pool[0].state = "Resolved"
    /\ Pool[0] = Pool[1]
    /\ instance["Config"].resolution_delay = 1


\* What is stored for pool p: its record, its outcome stakes in both
\* representations, and the predictions and receipts keyed by it.
PoolView(p) ==
    [pool |-> GetOr(Pool, p, <<>>),
     stakes |-> GetOr(OutcomeStakes, p, <<>>),
     stake |-> [k \in {k \in DOMAIN OutcomeStake : k[1] = p} |-> OutcomeStake[k]],
     predictions |-> [k \in KeysOf(Prediction, p) |-> Prediction[k]],
     receipts |-> [k \in KeysOf(HasClaimed, p) |-> HasClaimed[k]]]

\* C34: pools are isolated: a place_prediction, resolve_pool, oracle_resolve,
\* cancel_pool or claim_winnings on pool A leaves the record, the outcome
\* stakes, the predictions and the receipts of every other pool unchanged, and
\* a successful claim on pool A returns 0, the recorded amount (Canceled) or
\* floor(amount * total_stake / winning stake) computed from pool A's own
\* record, stakes and prediction, whatever the other pool holds (a product
\* beyond the i128 range aborts the claim instead).
C34_PoolsIsolated ==
    [][last'.op \in {"place_prediction", "resolve_pool", "oracle_resolve",
                     "cancel_pool", "claim_winnings"} =>
          /\ \A q \in TwinPoolIds : (q # last'.pool) => (PoolView(q)' = PoolView(q))
          /\ (/\ last'.op = "claim_winnings"
              /\ last'.pool \in DOMAIN Pool
              /\ ~GetOr(instance, "Paused", FALSE)
              /\ Pool[last'.pool].state # "Active"
              /\ <<last'.caller, last'.pool>> \notin DOMAIN HasClaimed) =>
                LET u == last'.caller
                    a == last'.pool
                    wins == /\ <<u, a>> \in DOMAIN Prediction
                            /\ Pool[a].state = "Resolved"
                            /\ Prediction[<<u, a>>].outcome = Pool[a].outcome
                IN  IF wins /\ Prediction[<<u, a>>].amount * Pool[a].total_stake > I128_MAX
                    THEN last'.res = "panic: overflow in winnings calculation"
                    ELSE /\ last'.res = "ok"
                         /\ last'.ret =
                               IF <<u, a>> \notin DOMAIN Prediction THEN 0
                               ELSE IF Pool[a].state = "Canceled"
                               THEN Prediction[<<u, a>>].amount
                               ELSE IF ~wins THEN 0
                               ELSE (Prediction[<<u, a>>].amount * Pool[a].total_stake)
                                        \div WinningStake(a)]_vars

\* C34 witness: both pools hold stakes of the same user; one was cancelled,
\* the other resolved in the user's favour against another user's stake, and
\* the user has just been paid from the resolved pool while the cancelled
\* pool's refund is still unclaimed.
C34_Witness ==
    /\ last.op = "claim_winnings"
    /\ last.res = "ok"
    /\ last.ret = 3
    /\ DOMAIN Pool = {0, 1}
    /\ Pool[last.pool].state = "Resolved"
    /\ Pool[1 - last.pool].state = "Canceled"
    /\ <<last.caller, 1 - last.pool>> \in DOMAIN Prediction
    /\ <<last.caller, 1 - last.pool>> \notin DOMAIN HasClaimed


\* C35: the pause flag is always reversible: on an initialized contract a
\* pause or an unpause by the administrator succeeds whether or not the flag
\* is set, sets or clears the flag and changes nothing else; and in a state
\* whose flag is clear no gated entry point is refused for being paused.
C35_PauseReversible ==
    [][/\ (last'.op \in {"pause", "unpause"} /\ last'.caller = "admin" /\ HasConfig) =>
             /\ last'.res = "ok"
             /\ GetOr(instance', "Paused", FALSE) = (last'.op = "pause")
             /\ \A k \in DOMAIN instance : k # "Paused" =>
                   k \in DOMAIN instance' /\ instance'[k] = instance[k]
             /\ DOMAIN instance' = DOMAIN instance \cup {"Paused"}
             /\ UNCHANGED <<Pool, Prediction, HasClaimed, OutcomeStake, OutcomeStakes,
                            UserPredictionCount, UserPredictionIndex,
                            CategoryPoolCount, CategoryPoolIndex, TokenWhitelist,
                            balance>>
       /\ (~GetOr(instance, "Paused", FALSE) /\ last'.op \in PauseGatedOps) =>
             last'.res # "panic: Contract is paused"]_vars

\* C35 witness: an unpause has written the flag clear and a stake on an Active
\* pool has just been accepted.
C35_Witness ==
    /\ last.op = "place_prediction"
    /\ last.res = "ok"
    /\ "Paused" \in DOMAIN instance
    /\ instance["Paused"] = FALSE


C37_Solvent ==
    /\ \A t \in DOMAIN balance :
          LET pools == {p \in DOMAIN Pool : Pool[p].token = t}
          IN  balance[t][Contract] =
                  SumOver(pools, [p \in pools |-> Pool[p].total_stake - PaidOut(p)])
    /\ \A p \in DOMAIN Pool : Pool[p].total_stake - PaidOut(p) >= 0
    /\ ~(last.op = "claim_winnings" /\ last.res = "panic: transfer failed")

\* C37 witness: two pools share the contract's balance, one created with
\* initial liquidity; a winner has just been paid the whole of one pool while
\* the other pool's funds are all still held.
C37_Witness ==
    /\ last.op = "claim_winnings"
    /\ last.res = "ok"
    /\ DOMAIN Pool = {0, 1}
    /\ last.ret = Pool[last.pool].total_stake
    /\ last.ret > 0
    /\ Pool[1 - last.pool].initial_liquidity = 1
    /\ PaidOut(1 - last.pool) = 0
    /\ balance[Pool[0].token][Contract] = Pool[1 - last.pool].total_stake
    /\ Pool[1 - last.pool].total_stake > 1


\* C38: the redundant pool fields agree: in every state resolved is true
\* exactly when state = Resolved, canceled is true exactly when
\* state = Canceled, the two flags are never both true, and neither
\* resolve_pool nor oracle_resolve ever returns InvalidPoolState.
C38_FlagsAgreeWithState ==
    /\ \A p \in DOMAIN Pool :
          /\ Pool[p].resolved <=> (Pool[p].state = "Resolved")
          /\ Pool[p].canceled <=> (Pool[p].state = "Canceled")
          /\ ~(Pool[p].resolved /\ Pool[p].canceled)
    /\ ~(last.op \in {"resolve_pool", "oracle_resolve"} /\ last.res = "InvalidPoolState")

\* C38 witness: one pool is Resolved and the other Canceled, and the oracle's
\* resolution of the resolved pool has just been refused by the flag check.
C38_Witness ==
    /\ last.op = "oracle_resolve"
    /\ last.caller = "oracle"
    /\ last.res = "panic: Pool already resolved"
    /\ DOMAIN Pool = {0, 1}
    /\ Pool[last.pool].state = "Resolved"
    /\ Pool[1 - last.pool].state = "Canceled"
    /\ Pool[1 - last.pool].canceled


\* C39: on a Canceled pool created with initial liquidity L > 0 the refunds
\* paid by claim_winnings sum to at most total_stake - L, a claim by a user
\* without a prediction record (the creator included) pays 0, and so at
\* least L of the pool's funds is still held by the contract whoever has
\* claimed.
C39_LiquidityStaysOnCancel ==
    /\ \A p \in DOMAIN Pool :
          (Pool[p].state = "Canceled" /\ Pool[p].initial_liquidity > 0) =>
              /\ PaidOut(p) <= Pool[p].total_stake - Pool[p].initial_liquidity
              /\ balance[Pool[p].token][Contract] >= Pool[p].initial_liquidity
    /\ (/\ last.op = "claim_winnings"
        /\ last.res = "ok"
        /\ <<last.caller, last.pool>> \notin DOMAIN Prediction) => last.ret = 0

\* C39 witness: a pool created with liquidity 1 was staked on by bob alone
\* and canceled; bob has his 2 back, the creator, who never staked, has just
\* claimed 0, and the liquidity is all that is left of the pool.
C39_Witness ==
    /\ last.op = "claim_winnings"
    /\ last.res = "ok"
    /\ last.ret = 0
    /\ last.pool \in DOMAIN Pool
    /\ Pool[last.pool].state = "Canceled"
    /\ Pool[last.pool].initial_liquidity = 1
    /\ last.caller = Pool[last.pool].creator
    /\ <<last.caller, last.pool>> \notin DOMAIN Prediction
    /\ <<"bob", last.pool>> \in DOMAIN HasClaimed
    /\ PaidOut(last.pool) = 2
    /\ Pool[last.pool].total_stake = 3


\* The claim of u on p is within the arithmetic range: the product
\* amount * total_stake that calculate_winnings forms fits the integer type.
ClaimInRange(u, p) == Prediction[<<u, p>>].amount * Pool[p].total_stake <= I128_MAX

\* u has a prediction on the settled pool p, within the arithmetic range.
Claimable(u, p) ==
    /\ p \in DOMAIN Pool
    /\ Pool[p].state \in {"Resolved", "Canceled"}
    /\ <<u, p>> \in DOMAIN Prediction
    /\ ClaimInRange(u, p)

\* C40: claims are never permanently blocked: a first claim_winnings on a
\* Resolved or Canceled pool by a user with a prediction on it, made while
\* the contract is not paused and within the arithmetic range, succeeds and
\* leaves a receipt; so, under weak fairness of claim_winnings and once the
\* contract stays unpaused, every such (user, pool) eventually has a claim
\* receipt.
C40_ClaimsNeverBlocked ==
    /\ [][\A u \in Stakers, p \in FairPoolIds :
            (/\ Claimable(u, p)
             /\ <<u, p>> \notin DOMAIN HasClaimed
             /\ ~is_paused
             /\ last'.op = "claim_winnings"
             /\ last'.caller = u
             /\ last'.pool = p
             /\ last' # last) =>
                /\ last'.res = "ok"
                /\ <<u, p>> \in DOMAIN HasClaimed']_vars
    /\ \A u \in Stakers, p \in FairPoolIds :
          (<>[](~is_paused)) =>
              (Claimable(u, p) ~> (<<u, p>> \in DOMAIN HasClaimed))

\* C40 witness: on a resolved pool both stakers hold a receipt, the loser
\* having claimed before the winner, whose claim has just been paid.
C40_Witness ==
    /\ last.op = "claim_winnings"
    /\ last.res = "ok"
    /\ last.ret > 0
    /\ last.pool \in DOMAIN Pool
    /\ Pool[last.pool].state = "Resolved"
    /\ Claimable(last.caller, last.pool)
    /\ \A u \in Stakers : <<u, last.pool>> \in DOMAIN HasClaimed
    /\ \E u \in Stakers : /\ u # last.caller
                           /\ <<u, last.pool>> \in DOMAIN Prediction
                           /\ payouts[<<u, last.pool>>] = <<0>>
    /\ "Paused" \in DOMAIN instance
    /\ ~is_paused

====
